---------------------------- MODULE Spec2Model ----------------------------
(***************************************************************************)
(* A model of the OCR session of mathscan (src/src/ocrprocessor.cpp,       *)
(* src/include/ocrprocessor.h): the OCRProcessor object, its mutex, the    *)
(* engine handle it owns, the process-wide supported-format cache, and the *)
(* threads that call its public operations.                                *)
(***************************************************************************)
EXTENDS Integers, Sequences, FiniteSets, TLC

(***************************************************************************)
(* Bounds of the model.                                                    *)
(***************************************************************************)
NumThreads == 2
NumSessions == 2
MaxHandles == 2

Threads == 1..NumThreads
Sessions == 1..NumSessions
Handles == 1..MaxHandles
\* A null std::unique_ptr<TessBaseAPI>, and an unlocked QMutex.
Null == 0

(***************************************************************************)
(* Strings whose characters matter (file suffixes, format names) are       *)
(* sequences of one-character strings, so that toLower() is computed.      *)
(***************************************************************************)
UpperChars == <<"A", "B", "F", "G", "I", "J", "M", "N", "P", "T", "W">>
LowerChars == <<"a", "b", "f", "g", "i", "j", "m", "n", "p", "t", "w">>

\* QChar::toLower on one character.
ToLowerChar(c) ==
    IF \E i \in 1..Len(UpperChars) : UpperChars[i] = c
    THEN LowerChars[CHOOSE i \in 1..Len(UpperChars) : UpperChars[i] = c]
    ELSE c

\* QString::toLower.
ToLower(str) == [i \in 1..Len(str) |-> ToLowerChar(str[i])]

Range(seq) == {seq[i] : i \in 1..Len(seq)}

\* QStringList::contains.
Contains(list, str) == \E i \in 1..Len(list) : list[i] = str

\* The format names getSupportedFormats() keeps.
IsOCRFormat(f) ==
    \/ f = <<"p", "n", "g">>
    \/ f = <<"j", "p", "g">>
    \/ f = <<"j", "p", "e", "g">>
    \/ f = <<"t", "i", "f", "f">>
    \/ f = <<"t", "i", "f">>
    \/ f = <<"b", "m", "p">>
    \/ f = <<"g", "i", "f">>
    \/ f = <<"w", "e", "b", "p">>

\* QImageReader::supportedImageFormats() of the running build: the decoder
\* plugins installed (here bmp, jpg, png and svg; no webp plugin).
DecoderFormats ==
    << <<"b", "m", "p">>, <<"j", "p", "g">>, <<"p", "n", "g">>, <<"s", "v", "g">> >>

(***************************************************************************)
(* The file system and the images the callers pass.                        *)
(***************************************************************************)
NullImage == [null |-> TRUE, w |-> 0, h |-> 0]
SmallImage == [null |-> FALSE, w |-> 2, h |-> 1]

\* path |-> what QFileInfo and QImage(path) report for it.
Files ==
    [p \in {"missing.png", "shots.png", "notes.txt", "SCAN.PNG", "broken.jpg",
            "page.webp"} |->
        CASE p = "missing.png" ->
               [exists |-> FALSE, isFile |-> FALSE, suffix |-> <<"p", "n", "g">>,
                image |-> NullImage]
          [] p = "shots.png" ->  \* a directory
               [exists |-> TRUE, isFile |-> FALSE, suffix |-> <<"p", "n", "g">>,
                image |-> NullImage]
          [] p = "notes.txt" ->
               [exists |-> TRUE, isFile |-> TRUE, suffix |-> <<"t", "x", "t">>,
                image |-> NullImage]
          [] p = "SCAN.PNG" ->
               [exists |-> TRUE, isFile |-> TRUE, suffix |-> <<"P", "N", "G">>,
                image |-> SmallImage]
          [] p = "broken.jpg" ->  \* right suffix, content does not decode
               [exists |-> TRUE, isFile |-> TRUE, suffix |-> <<"j", "p", "g">>,
                image |-> NullImage]
          [] p = "page.webp" ->   \* an OCR format the decoder lacks
               [exists |-> TRUE, isFile |-> TRUE, suffix |-> <<"w", "e", "b", "p">>,
                image |-> SmallImage]]

Paths == DOMAIN Files
Images == {NullImage, SmallImage}

\* Images of 2 GiB and of 4 GiB in RGB32 (Qt 6 allocates them).
HugeImages ==
    {[null |-> FALSE, w |-> 32768, h |-> 16384], [null |-> FALSE, w |-> 32768, h |-> 32768]}

(***************************************************************************)
(* OCRConfig and OCRResult (ocrprocessor.h).                               *)
(***************************************************************************)
Modes == {"Auto", "Text", "Equations", "Mixed"}

DefaultConfig ==
    [mode |-> "Auto", language |-> "eng", dpi |-> 300, preprocessImage |-> TRUE,
     enableConfidenceScoring |-> TRUE, minimumConfidence |-> 60]

\* A configuration that differs from the default one in every field.
EquationConfig ==
    [mode |-> "Equations", language |-> "eng+equ", dpi |-> 150,
     preprocessImage |-> FALSE, enableConfidenceScoring |-> FALSE,
     minimumConfidence |-> 100]

\* The configurations callers pass.
ConfigInputs == {DefaultConfig, EquationConfig}

\* A QString after std::move has taken its contents.
MovedFromString == ""

NoSize == [w |-> -1, h |-> -1]
NoError == <<>>

\* processingTimeMs is either its default or what timer.elapsed() returned.
DefaultTime == "0"
TimerElapsed == "timer.elapsed()"

\* A default-constructed OCRResult.
DefaultResult ==
    [text |-> <<>>, confidence |-> 0, success |-> FALSE, errorMessage |-> NoError,
     imageSize |-> NoSize, processingTimeMs |-> DefaultTime]

MsgNotInitialized == <<"OCR processor not initialized">>
MsgInvalidFile(p) == <<"Invalid or unsupported image file: ", p>>
MsgLoadFailed(p) == <<"Failed to load image: ", p>>
MsgInvalidImage == <<"Invalid image provided">>
MsgProcessingFailed == <<"OCR processing failed: ", "what">>
MsgBelowThreshold(c, m) == <<"OCR confidence below threshold", c, m>>
MsgNoText == <<"Tesseract failed to extract text">>
MsgExtractException == <<"Exception during text extraction: ", "what">>


(***************************************************************************)
(* The engine (TessBaseAPI) and its environment.                           *)
(***************************************************************************)
\* possiblePaths of initializeTesseract, in order.
PossiblePaths ==
    <<"<appdir>/tessdata", "<cwd>/tessdata", "<appdata>/tessdata",
      "/usr/share/tesseract-ocr/4.00/tessdata", "/usr/share/tesseract-ocr/tessdata",
      "C:/Program Files/Tesseract-OCR/tessdata", "C:/tools/tesseract/tessdata">>

\* Where the engine looks when Init() gets no data path (TESSDATA_PREFIX or
\* the directory compiled into the library).
EngineDefaultDir == "<TESSDATA_PREFIX>"

TessdataDirs == Range(PossiblePaths) \cup {EngineDefaultDir}

\* The traineddata files Init(datapath, language) loads for a language string.
LanguageFiles(language) ==
    CASE language = "eng" -> {"eng.traineddata"}
      [] language = "eng+equ" -> {"eng.traineddata", "equ.traineddata"}
      [] language = "deu" -> {"deu.traineddata"}
      [] OTHER -> {"<none>.traineddata"}

\* A layout of the machine: the directories named have the files given, every
\* other directory is missing or empty.
Layout(dirs) == [d \in TessdataDirs |-> IF d \in DOMAIN dirs THEN dirs[d] ELSE {}]

\* The usual installation: the distribution's directory holds eng and equ.
StandardLayout ==
    Layout([d \in {"/usr/share/tesseract-ocr/tessdata"} |->
               {"eng.traineddata", "equ.traineddata"}])

\* The layouts a session is constructed on.
Layouts ==
    { StandardLayout,
      \* German data beside the program's working directory
      Layout([d \in {"<cwd>/tessdata", "/usr/share/tesseract-ocr/tessdata"} |->
                 IF d = "<cwd>/tessdata" THEN {"deu.traineddata"}
                 ELSE {"eng.traineddata", "equ.traineddata"}]),
      \* data only where the engine itself looks
      Layout([d \in {EngineDefaultDir} |-> {"eng.traineddata", "equ.traineddata"}]),
      \* no data at all
      Layout([d \in {} |-> {}]) }

\* What the bytes behind a dangling const char* read as when they are no
\* longer the path.
GarbagePath == "<freed bytes>"

\* A TessBaseAPI object that make_unique has not created yet.
FreshEngine ==
    [state |-> "none", language |-> "", dataPath |-> "", psm |-> "PSM_SINGLE_BLOCK",
     oem |-> "", dpi |-> 0, whitelist |-> FALSE]

\* What one recognition can produce: GetUTF8Text's buffer (NoBuffer for a null
\* pointer) and MeanTextConf's value.
EngineBuffers ==
    {[null |-> TRUE, chars |-> <<>>], [null |-> FALSE, chars |-> <<>>],
     [null |-> FALSE, chars |-> <<" ", "\n">>],
     [null |-> FALSE, chars |-> <<"x", "=", "1", "\n">>]}
EngineConfs == {0, 60, 100}

\* QChar::isSpace on the characters above.
IsSpace(c) == c \in {" ", "\n", "\t"}

\* QString::trimmed().isEmpty(): nothing is left once the white space at both
\* ends is removed.
TrimmedIsEmpty(text) == \A i \in 1..Len(text) : IsSpace(text[i])

VARIABLES
    alive,                 \* [Sessions -> BOOLEAN]: the object is constructed
    m_tesseractAPI,        \* [Sessions -> Handles \cup {Null}]
    m_config,              \* [Sessions -> OCRConfig]
    m_initialized,         \* [Sessions -> BOOLEAN]
    m_tesseractDataPath,   \* [Sessions -> STRING]
    m_mutex,               \* [Sessions -> Threads \cup {Null}]: the holder
    engine,                \* [Handles -> the TessBaseAPI object's state]
    s_supportedFormats,    \* the static QStringList
    s_supportedFormatsInitialized,
    populations,           \* history: how often the population loop was entered
    tessdata,              \* [TessdataDirs -> the traineddata files in the directory]
    pc,                    \* [Threads -> label]
    stack,                 \* [Threads -> the functions on the call stack]
    loc,                   \* [Threads -> arguments and locals of the call]
    ret,                   \* [Threads -> the call that has just returned, with its
                           \*  value, until the thread's next call begins]
    pre,                   \* [Threads -> m_config of the session called, as the
                           \*  last call found it]
    disk,                  \* the entries of the project directory that exist
    cleanup,               \* the ProjectCleanup object and the calls of
                           \* cleanDirectory in progress
    runs,                  \* history: what each finished process of the
                           \* cleanup utility did
    window                 \* the MainWindow object: its members, its widgets'
                           \* enabled flags, its timers and the slot it executes

sessionVars == <<alive, m_tesseractAPI, m_config, m_initialized, m_tesseractDataPath,
                 engine>>
staticVars == <<s_supportedFormats, s_supportedFormatsInitialized, populations, tessdata>>
threadVars == <<pc, stack, loc, ret, pre>>
toolVars == <<disk, cleanup, runs>>
windowVars == <<window>>
\* The state of the repository's other programs, which no operation of an
\* OCR session touches.
appVars == <<toolVars, windowVars>>
vars == <<sessionVars, m_mutex, staticVars, threadVars, appVars>>

\* The locals of a thread that is in no call.
IdleLoc ==
    [self |-> Null, path |-> "", mode |-> "Auto", cfg |-> DefaultConfig,
     image |-> NullImage, originalMode |-> "Auto", result |-> DefaultResult,
     inner |-> DefaultResult, extracted |-> DefaultResult, formats |-> <<>>,
     imageData |-> [width |-> 0, height |-> 0, bytesPerPixel |-> 0, bytesPerLine |-> 0,
                    dataSize |-> 0],
     idx |-> 0, engineCalled |-> FALSE, decoded |-> FALSE, answers |-> <<>>,
     thrown |-> FALSE]

\* answers: what the engine returned to the call, in order (GetUTF8Text's
\* buffer, then MeanTextConf's value); thrown: a std::exception was raised
\* inside the call.
NoCall == [op |-> "none", self |-> Null, arg |-> <<>>, val |-> <<>>,
           engineCalled |-> FALSE, decoded |-> FALSE, answers |-> <<>>,
           thrown |-> FALSE]

\* getConfig()'s value for session s at this moment (for a static call, which
\* has no session, the default).
ConfigOf(s) == IF s = Null THEN DefaultConfig ELSE m_config[s]

(***************************************************************************)
(* Private helpers of OCRProcessor, as operators on one session.           *)
(***************************************************************************)
\* Directories of the machine that hold eng.traineddata.
DirsWithEngData == {d \in Range(PossiblePaths) : "eng.traineddata" \in tessdata[d]}

\* The first of possiblePaths that holds eng.traineddata, else the empty path.
ProbeDataPath ==
    IF \E i \in 1..Len(PossiblePaths) : PossiblePaths[i] \in DirsWithEngData
    THEN PossiblePaths[CHOOSE i \in 1..Len(PossiblePaths) :
                          /\ PossiblePaths[i] \in DirsWithEngData
                          /\ \A j \in 1..(i - 1) : PossiblePaths[j] \notin DirsWithEngData]
    ELSE ""

\* const char* dataPath = ... toLocal8Bit().constData(): the QByteArray is a
\* temporary that dies with the declaration, so Init() reads freed memory.
\* The bytes can still be the path, can be overwritten, or can start with a
\* NUL (an empty path, which the engine treats like none).
InitDataPaths(found) == IF found = "" THEN {""} ELSE {found, GarbagePath, ""}

\* TessBaseAPI::Init's status for the path it reads and the language.
EngineInitStatus(datapath, language) ==
    LET dir == IF datapath = "" THEN EngineDefaultDir ELSE datapath
    IN  IF dir \in TessdataDirs /\ LanguageFiles(language) \subseteq tessdata[dir]
        THEN 0
        ELSE -1

\* The page segmentation mode applyConfiguration selects.
PsmOf(mode) == IF mode = "Equations" THEN "PSM_SINGLE_BLOCK" ELSE "PSM_AUTO"

\* applyConfiguration's calls on a live handle.
ConfiguredEngine(e, config) ==
    [e EXCEPT !.psm = PsmOf(config.mode),
              !.oem = "1",
              !.dpi = IF config.dpi > 0 THEN config.dpi ELSE @,
              !.whitelist = IF config.mode \in {"Equations", "Mixed"} THEN TRUE ELSE @]

\* applyConfiguration(): its return value ...
ApplyConfigurationOk(s) == m_tesseractAPI[s] # Null

\* ... and the engine after it, for stored configuration config.
ApplyConfigurationEngine(s, config) ==
    IF m_tesseractAPI[s] = Null
    THEN engine
    ELSE [engine EXCEPT ![m_tesseractAPI[s]] = ConfiguredEngine(@, config)]


(***************************************************************************)
(* Image pipeline helpers.                                                 *)
(***************************************************************************)
\* qRound(n / d) for n >= 0, d > 0.
RoundDiv(n, d) == (2 * n + d) \div (2 * d)

Max(a, b) == IF a >= b THEN a ELSE b

\* preprocessImage(): the size of the image it returns (grayscale conversion
\* keeps the size; scaling by dpi / 300.0 keeps the aspect ratio and never
\* goes below one pixel).
PreprocessedSize(image, config) ==
    IF config.dpi > 0 /\ config.dpi # 300
    THEN LET bw == RoundDiv(image.w * config.dpi, 300)
             bh == RoundDiv(image.h * config.dpi, 300)
             rw == (bh * image.w) \div image.h
             fit == IF rw <= bw
                    THEN [w |-> rw, h |-> bh]
                    ELSE [w |-> bw, h |-> (bw * image.h) \div image.w]
         IN  [w |-> Max(fit.w, 1), h |-> Max(fit.h, 1)]
    ELSE [w |-> image.w, h |-> image.h]

\* INT_MAX of the 32-bit int that ImageData's members have.
MaxInt32 == 2147483647

\* x + y wrapped to 32-bit two's complement.
AddInt32(x, y) ==
    IF x >= 0 /\ y > MaxInt32 - x
    THEN (x - MaxInt32 - 1) + (y - MaxInt32 - 1)
    ELSE IF x < 0 /\ y < (-MaxInt32 - 1) - x
    THEN (x + MaxInt32 + 1) + (y + MaxInt32 + 1)
    ELSE x + y

\* The low 32 bits of a * b as an int, for a, b >= 0 (shift and add).
RECURSIVE MulInt32(_, _)
MulInt32(a, b) ==
    IF b = 0
    THEN 0
    ELSE LET half == MulInt32(a, b \div 2)
             twice == AddInt32(half, half)
         IN  IF b % 2 = 1 THEN AddInt32(twice, a) ELSE twice

\* a * b does not fit into an int (a, b >= 0): signed overflow.
MulOverflows(a, b) == b > 0 /\ a > MaxInt32 \div b

\* convertImageForTesseract(): the ImageData of an image of the given size;
\* dataSize = height * bytesPerLine is an int multiplication.
ConvertImageForTesseract(size) ==
    [width |-> size.w, height |-> size.h, bytesPerPixel |-> 4,
     bytesPerLine |-> 4 * size.w, dataSize |-> MulInt32(size.h, 4 * size.w)]

(***************************************************************************)
(* Calls and returns.                                                      *)
(***************************************************************************)
Self(t) == loc[t].self

SetLoc(t, l) == loc' = [loc EXCEPT ![t] = l]
Goto(t, label) == pc' = [pc EXCEPT ![t] = label]
Push(t, fn) == stack' = [stack EXCEPT ![t] = Append(@, fn)]
Pop(t) == stack' = [stack EXCEPT ![t] = SubSeq(@, 1, Len(@) - 1)]
Nested(t) == Len(stack[t]) > 1

\* A thread enters a public operation.
Begin(t, s, fn, label, l) ==
    /\ pc[t] = "idle"
    /\ Goto(t, label)
    /\ stack' = [stack EXCEPT ![t] = <<fn>>]
    /\ SetLoc(t, [l EXCEPT !.self = s])
    /\ pre' = [pre EXCEPT ![t] = ConfigOf(s)]
    /\ ret' = [ret EXCEPT ![t] = NoCall]
    /\ UNCHANGED <<sessionVars, m_mutex, staticVars>>

\* The call is made by a caller that is not one of the repository's programs.
Start(t, s, fn, label, l) == Begin(t, s, fn, label, l) /\ UNCHANGED appVars

\* The outermost call of a thread returns val to its caller.
Finish(t, op, arg, val, l) ==
    /\ Goto(t, "idle")
    /\ stack' = [stack EXCEPT ![t] = <<>>]
    /\ ret' = [ret EXCEPT ![t] =
                  [op |-> op, self |-> l.self, arg |-> arg, val |-> val,
                   engineCalled |-> l.engineCalled, decoded |-> l.decoded,
                   answers |-> l.answers, thrown |-> l.thrown]]
    /\ SetLoc(t, IdleLoc)

(***************************************************************************)
(* static getSupportedFormats()                                            *)
(***************************************************************************)
CallGetSupportedFormats(t) ==
    Start(t, Null, "getSupportedFormats", "gf_check", IdleLoc)

\* if (!s_supportedFormatsInitialized)
GFCheck(t) ==
    /\ pc[t] = "gf_check"
    /\ Goto(t, IF s_supportedFormatsInitialized THEN "gf_return" ELSE "gf_clear")
    /\ UNCHANGED <<sessionVars, m_mutex, staticVars, appVars, stack, loc, ret, pre>>

\* s_supportedFormats.clear(); supportedByteArrays = supportedImageFormats()
GFClear(t) ==
    /\ pc[t] = "gf_clear"
    /\ s_supportedFormats' = <<>>
    /\ populations' = populations + 1
    /\ SetLoc(t, [loc[t] EXCEPT !.idx = 1])
    /\ Goto(t, "gf_loop")
    /\ UNCHANGED <<sessionVars, m_mutex, appVars, s_supportedFormatsInitialized, tessdata, stack,
                   ret, pre>>

\* The format the loop body keeps or drops.
GFKeeps(formatString) == IsOCRFormat(formatString)

\* One iteration of the loop over supportedByteArrays.
GFLoop(t) ==
    /\ pc[t] = "gf_loop"
    /\ loc[t].idx <= Len(DecoderFormats)
    /\ LET formatString == ToLower(DecoderFormats[loc[t].idx])
       IN  s_supportedFormats' =
               IF GFKeeps(formatString)
               THEN Append(s_supportedFormats, formatString)
               ELSE s_supportedFormats
    /\ SetLoc(t, [loc[t] EXCEPT !.idx = @ + 1])
    /\ UNCHANGED <<sessionVars, m_mutex, appVars, s_supportedFormatsInitialized, populations,
                   tessdata, pc, stack, ret, pre>>

\* The loop is over: s_supportedFormatsInitialized = true
GFSetFlag(t) ==
    /\ pc[t] = "gf_loop"
    /\ loc[t].idx > Len(DecoderFormats)
    /\ s_supportedFormatsInitialized' = TRUE
    /\ Goto(t, "gf_return")
    /\ UNCHANGED <<sessionVars, m_mutex, appVars, s_supportedFormats, populations, tessdata,
                   stack, loc, ret, pre>>

\* return s_supportedFormats; in validateImage the value becomes the local
\* supportedFormats.
GFReturn(t) ==
    /\ pc[t] = "gf_return"
    /\ IF Nested(t)
       THEN /\ SetLoc(t, [loc[t] EXCEPT !.formats = s_supportedFormats, !.idx = 0])
            /\ Goto(t, "vi_contains")
            /\ Pop(t)
            /\ UNCHANGED ret
       ELSE Finish(t, "getSupportedFormats", <<>>, s_supportedFormats, loc[t])
    /\ UNCHANGED <<sessionVars, m_mutex, staticVars, appVars, pre>>

(***************************************************************************)
(* static validateImage(path)                                              *)
(***************************************************************************)
CallValidateImage(t, p) ==
    Start(t, Null, "validateImage", "vi_start", [IdleLoc EXCEPT !.path = p])

\* (mutant) the isFile() test is missing
VIRejectsMissingOnly(p) == ~Files[p].exists

\* !fileInfo.exists() || !fileInfo.isFile()
VIRejectsFile(p) == ~Files[p].exists \/ ~Files[p].isFile

\* (mutant) the suffix is compared as written
VISuffixAsWritten(p) == Files[p].suffix

\* fileInfo.suffix().toLower()
VISuffix(p) == ToLower(Files[p].suffix)

\* validateImage returns v: to performOCR(path), which tests it, or to the
\* thread's caller.
ValidateReturn(t, v, l) ==
    IF Nested(t)
    THEN /\ Pop(t)
         /\ UNCHANGED ret
         /\ IF v
            THEN /\ SetLoc(t, l)
                 /\ Goto(t, "pp_load")
            ELSE /\ SetLoc(t, [l EXCEPT !.result.errorMessage = MsgInvalidFile(l.path)])
                 /\ Goto(t, "pp_return")
    ELSE Finish(t, "validateImage", l.path, v, l)

VIStart(t) ==
    /\ pc[t] = "vi_start"
    /\ IF VIRejectsFile(loc[t].path)
       THEN ValidateReturn(t, FALSE, loc[t])
       ELSE /\ Goto(t, "gf_check")
            /\ Push(t, "getSupportedFormats")
            /\ UNCHANGED <<loc, ret>>
    /\ UNCHANGED <<sessionVars, m_mutex, staticVars, appVars, pre>>

\* return supportedFormats.contains(suffix)
VIContains(t) ==
    /\ pc[t] = "vi_contains"
    /\ ValidateReturn(t, Contains(loc[t].formats, VISuffix(loc[t].path)),
                      [loc[t] EXCEPT !.formats = <<>>])
    /\ UNCHANGED <<sessionVars, m_mutex, staticVars, appVars, pre>>


(***************************************************************************)
(* QMutexLocker on m_mutex, a non-recursive QMutex: lock() blocks until    *)
(* the mutex is free, also when the caller itself holds it.                *)
(***************************************************************************)
\* (mutant) lock() that never waits
CanLockAlways(t, s) == TRUE

CanLock(t, s) == m_mutex[s] = Null
Lock(t, s) == m_mutex' = [m_mutex EXCEPT ![s] = t]
Unlock(t, s) == m_mutex' = [m_mutex EXCEPT ![s] = Null]

\* An engine call through the session's handle is noted in the locals.
NoteEngineCall(l, s) == [l EXCEPT !.engineCalled = @ \/ m_tesseractAPI[s] # Null]

(***************************************************************************)
(* performOCR(const QImage&)                                               *)
(***************************************************************************)
CallPerformOCRImage(t, s, img) ==
    /\ alive[s]
    /\ Start(t, s, "performOCR(image)", "pi_lock", [IdleLoc EXCEPT !.image = img])

\* QMutexLocker locker(&m_mutex); timer.start()
PILock(t) ==
    /\ pc[t] = "pi_lock"
    /\ CanLock(t, Self(t))
    /\ Lock(t, Self(t))
    /\ SetLoc(t, [loc[t] EXCEPT !.inner = DefaultResult])
    /\ Goto(t, "pi_check")
    /\ UNCHANGED <<sessionVars, staticVars, appVars, stack, ret, pre>>

\* The two early returns of performOCR(image): the message, or NoError.
PIRejects(s, img) ==
    IF ~m_initialized[s] THEN MsgNotInitialized
    ELSE IF img.null THEN MsgInvalidImage
    ELSE NoError

PICheck(t) ==
    /\ pc[t] = "pi_check"
    /\ LET msg == PIRejects(Self(t), loc[t].image)
       IN  IF msg # NoError
           THEN /\ SetLoc(t, [loc[t] EXCEPT !.inner.errorMessage = msg])
                /\ Goto(t, "pi_return")
           ELSE /\ SetLoc(t, [loc[t] EXCEPT !.inner.imageSize =
                                  [w |-> loc[t].image.w, h |-> loc[t].image.h]])
                /\ Goto(t, "pi_convert")
    /\ UNCHANGED <<sessionVars, m_mutex, staticVars, appVars, stack, ret, pre>>

\* What height * bytesPerLine does: the product if it fits; otherwise the
\* behaviour is undefined, and a build either wraps or traps (-ftrapv).
MulOutcomes(a, b) == IF MulOverflows(a, b) THEN {"wrap", "trap"} ELSE {"fits"}

\* (mutant) the catch block stores no message
PICatchNoMessage == NoError

\* catch (const std::exception& e): the message it stores in the result
PICatchMessage == MsgProcessingFailed

\* try { preprocessImage; convertImageForTesseract; ... }: the allocations
\* can throw std::bad_alloc, which the catch turns into an error message.
PIConvert(t, in) ==
    /\ pc[t] = "pi_convert"
    /\ \E throws \in in.throws :
          IF throws
          THEN /\ SetLoc(t, [loc[t] EXCEPT !.inner.errorMessage = PICatchMessage,
                                           !.thrown = TRUE])
               /\ Goto(t, "pi_return")
               /\ UNCHANGED stack
          ELSE LET cfg == m_config[Self(t)]
                   size == IF cfg.preprocessImage
                           THEN PreprocessedSize(loc[t].image, cfg)
                           ELSE [w |-> loc[t].image.w, h |-> loc[t].image.h]
                   imageData == ConvertImageForTesseract(size)
               IN  \E outcome \in MulOutcomes(imageData.height, imageData.bytesPerLine) :
                      IF outcome = "trap"
                      THEN \* the process is killed inside the call
                           /\ Goto(t, "aborted")
                           /\ UNCHANGED <<loc, stack>>
                      ELSE IF imageData.dataSize < 0
                      THEN \* make_unique of a size_t above 2^63: std::bad_alloc
                           /\ SetLoc(t, [loc[t] EXCEPT !.inner.errorMessage = PICatchMessage,
                                                       !.thrown = TRUE])
                           /\ Goto(t, "pi_return")
                           /\ UNCHANGED stack
                      ELSE /\ SetLoc(t, [loc[t] EXCEPT !.imageData = imageData,
                                                       !.extracted = DefaultResult])
                           /\ Goto(t, "et_setimage")
                           /\ Push(t, "extractText")
    /\ UNCHANGED <<sessionVars, m_mutex, staticVars, appVars, ret, pre>>

(***************************************************************************)
(* extractText(imageData)                                                  *)
(***************************************************************************)
\* m_tesseractAPI->SetImage(...), which can throw
ETSetImage(t, in) ==
    /\ pc[t] = "et_setimage"
    /\ \E throws \in in.throws :
          IF throws
          THEN /\ SetLoc(t, NoteEngineCall(
                       [loc[t] EXCEPT !.extracted.errorMessage = MsgExtractException,
                                      !.thrown = TRUE],
                       Self(t)))
               /\ Goto(t, "et_return")
          ELSE /\ SetLoc(t, NoteEngineCall(loc[t], Self(t)))
               /\ Goto(t, "et_gettext")
    /\ UNCHANGED <<sessionVars, m_mutex, staticVars, appVars, stack, ret, pre>>

\* (mutant) the threshold itself does not pass
ConfidenceExceeds(confidence, config) == confidence > config.minimumConfidence

\* result.success when confidence scoring is enabled
ConfidenceMeets(confidence, config) == confidence >= config.minimumConfidence

\* (mutant) the text is tested for a non-space last character, untrimmed
TextEndsInInk(text) == text # <<>> /\ ~IsSpace(text[Len(text)])

\* result.success when confidence scoring is disabled
TextFound(text) == ~TrimmedIsEmpty(text)

\* char* ocrResult = GetUTF8Text(); the branch without confidence scoring
ETGetText(t, in) ==
    /\ pc[t] = "et_gettext"
    /\ \E buf \in in.buffers :
          IF buf.null
          THEN /\ SetLoc(t, [loc[t] EXCEPT !.extracted.errorMessage = MsgNoText,
                                           !.answers = Append(@, buf)])
               /\ Goto(t, "et_return")
          ELSE IF m_config[Self(t)].enableConfidenceScoring
          THEN /\ SetLoc(t, [loc[t] EXCEPT !.extracted.text = buf.chars,
                                           !.answers = Append(@, buf)])
               /\ Goto(t, "et_conf")
          ELSE /\ SetLoc(t, [loc[t] EXCEPT !.extracted.text = buf.chars,
                                           !.extracted.success = TextFound(buf.chars),
                                           !.answers = Append(@, buf)])
               /\ Goto(t, "et_return")
    /\ UNCHANGED <<sessionVars, m_mutex, staticVars, appVars, stack, ret, pre>>

\* result.confidence = MeanTextConf(), compared with the threshold
ETConf(t, in) ==
    /\ pc[t] = "et_conf"
    /\ \E c \in in.confs :
          LET cfg == m_config[Self(t)]
          IN  IF ConfidenceMeets(c, cfg)
              THEN SetLoc(t, [loc[t] EXCEPT !.extracted.confidence = c,
                                            !.extracted.success = TRUE,
                                            !.answers = Append(@, c)])
              ELSE SetLoc(t, [loc[t] EXCEPT !.extracted.confidence = c,
                                            !.extracted.errorMessage =
                                                MsgBelowThreshold(c, cfg.minimumConfidence),
                                            !.answers = Append(@, c)])
    /\ Goto(t, "et_return")
    /\ UNCHANGED <<sessionVars, m_mutex, staticVars, appVars, stack, ret, pre>>

\* return result; in performOCR(image): result = extractText(imageData);
\* result.processingTimeMs = timer.elapsed()
ETReturn(t) ==
    /\ pc[t] = "et_return"
    /\ SetLoc(t, [loc[t] EXCEPT !.inner = [loc[t].extracted EXCEPT
                                              !.processingTimeMs = TimerElapsed],
                                !.extracted = DefaultResult,
                                !.imageData = IdleLoc.imageData])
    /\ Goto(t, "pi_return")
    /\ Pop(t)
    /\ UNCHANGED <<sessionVars, m_mutex, staticVars, appVars, ret, pre>>

\* return result (the locker unlocks); in performOCR(path):
\* result = performOCR(image); result.processingTimeMs = timer.elapsed()
PIReturn(t) ==
    /\ pc[t] = "pi_return"
    /\ Unlock(t, Self(t))
    /\ IF Nested(t)
       THEN /\ SetLoc(t, [loc[t] EXCEPT !.result = [loc[t].inner EXCEPT
                                                       !.processingTimeMs = TimerElapsed],
                                         !.inner = DefaultResult])
            /\ Goto(t, "pp_return")
            /\ Pop(t)
            /\ UNCHANGED ret
       ELSE Finish(t, "performOCR(image)", loc[t].image, loc[t].inner, loc[t])
    /\ UNCHANGED <<sessionVars, staticVars, appVars, pre>>

(***************************************************************************)
(* performOCR(const QString&)                                              *)
(***************************************************************************)
CallPerformOCRPath(t, s, p) ==
    /\ alive[s]
    /\ Start(t, s, "performOCR(path)", "pp_lock", [IdleLoc EXCEPT !.path = p])

\* QMutexLocker locker(&m_mutex); OCRResult result; timer.start()
PPLock(t) ==
    /\ pc[t] = "pp_lock"
    /\ CanLock(t, Self(t))
    /\ Lock(t, Self(t))
    /\ SetLoc(t, [loc[t] EXCEPT !.result = DefaultResult])
    /\ Goto(t, "pp_check")
    /\ UNCHANGED <<sessionVars, staticVars, appVars, stack, ret, pre>>

\* (mutant) the test of m_initialized is missing
PPNeverUninitialized(s) == FALSE

\* if (!m_initialized)
PPNotInitialized(s) == ~m_initialized[s]

\* if (!m_initialized) ... ; if (!validateImage(imagePath))
PPCheck(t) ==
    /\ pc[t] = "pp_check"
    /\ IF PPNotInitialized(Self(t))
       THEN /\ SetLoc(t, [loc[t] EXCEPT !.result.errorMessage = MsgNotInitialized])
            /\ Goto(t, "pp_return")
            /\ UNCHANGED stack
       ELSE /\ Goto(t, "vi_start")
            /\ Push(t, "validateImage")
            /\ UNCHANGED loc
    /\ UNCHANGED <<sessionVars, m_mutex, staticVars, appVars, ret, pre>>

\* QImage image(imagePath); if (image.isNull()) ...; result.imageSize = ...;
\* then the call of performOCR(image)
PPLoad(t) ==
    /\ pc[t] = "pp_load"
    /\ LET image == Files[loc[t].path].image
           l == [loc[t] EXCEPT !.decoded = TRUE]
       IN  IF image.null
           THEN /\ SetLoc(t, [l EXCEPT !.result.errorMessage = MsgLoadFailed(l.path)])
                /\ Goto(t, "pp_return")
                /\ UNCHANGED stack
           ELSE /\ SetLoc(t, [l EXCEPT !.result.imageSize = [w |-> image.w, h |-> image.h],
                                       !.image = image])
                /\ Goto(t, "pi_lock")
                /\ Push(t, "performOCR(image)")
    /\ UNCHANGED <<sessionVars, m_mutex, staticVars, appVars, ret, pre>>

\* return result (the locker unlocks); in performOCR(path, mode):
\* OCRResult result = performOCR(imagePath)
PPReturn(t) ==
    /\ pc[t] = "pp_return"
    /\ Unlock(t, Self(t))
    /\ IF Nested(t)
       THEN /\ Goto(t, "pm_restore")
            /\ Pop(t)
            /\ UNCHANGED <<loc, ret>>
       ELSE Finish(t, "performOCR(path)", loc[t].path, loc[t].result, loc[t])
    /\ UNCHANGED <<sessionVars, staticVars, appVars, pre>>


(***************************************************************************)
(* performOCR(const QString&, ProcessingMode): no locker of its own.       *)
(***************************************************************************)
CallPerformOCRMode(t, s, p, m) ==
    /\ alive[s]
    /\ Start(t, s, "performOCR(path,mode)", "pm_save",
             [IdleLoc EXCEPT !.path = p, !.mode = m])

\* ProcessingMode originalMode = m_config.mode
PMSave(t) ==
    /\ pc[t] = "pm_save"
    /\ SetLoc(t, [loc[t] EXCEPT !.originalMode = m_config[Self(t)].mode])
    /\ Goto(t, "pm_set")
    /\ UNCHANGED <<sessionVars, m_mutex, staticVars, appVars, stack, ret, pre>>

\* m_config.mode = mode
PMSet(t) ==
    /\ pc[t] = "pm_set"
    /\ m_config' = [m_config EXCEPT ![Self(t)].mode = loc[t].mode]
    /\ Goto(t, "pm_apply")
    /\ UNCHANGED <<alive, m_tesseractAPI, m_initialized, m_tesseractDataPath, engine,
                   m_mutex, staticVars, appVars, stack, loc, ret, pre>>

\* applyConfiguration(); then the call of performOCR(imagePath)
PMApply(t) ==
    /\ pc[t] = "pm_apply"
    /\ engine' = ApplyConfigurationEngine(Self(t), m_config[Self(t)])
    /\ SetLoc(t, NoteEngineCall(loc[t], Self(t)))
    /\ Goto(t, "pp_lock")
    /\ Push(t, "performOCR(path)")
    /\ UNCHANGED <<alive, m_tesseractAPI, m_config, m_initialized, m_tesseractDataPath,
                   m_mutex, staticVars, appVars, ret, pre>>

\* (mutant) the restore writes the override again
PMRestoredOverride(l) == l.mode

\* The mode performOCR(path, mode) stores once performOCR(path) is back.
PMRestoredMode(l) == l.originalMode

\* m_config.mode = originalMode
PMRestore(t) ==
    /\ pc[t] = "pm_restore"
    /\ m_config' = [m_config EXCEPT ![Self(t)].mode = PMRestoredMode(loc[t])]
    /\ Goto(t, "pm_reapply")
    /\ UNCHANGED <<alive, m_tesseractAPI, m_initialized, m_tesseractDataPath, engine,
                   m_mutex, staticVars, appVars, stack, loc, ret, pre>>

\* applyConfiguration(); return result
PMReapply(t) ==
    /\ pc[t] = "pm_reapply"
    /\ engine' = ApplyConfigurationEngine(Self(t), m_config[Self(t)])
    /\ Finish(t, "performOCR(path,mode)", <<loc[t].path, loc[t].mode>>, loc[t].result,
              NoteEngineCall(loc[t], Self(t)))
    /\ UNCHANGED <<alive, m_tesseractAPI, m_config, m_initialized, m_tesseractDataPath,
                   m_mutex, staticVars, appVars, pre>>

(***************************************************************************)
(* getConfig, setConfig, isInitialized, getAvailableLanguages              *)
(***************************************************************************)
\* getConfig(): lock, copy m_config, unlock
GetConfig(t, s) ==
    /\ pc[t] = "idle"
    /\ alive[s]
    /\ CanLock(t, s)
    /\ Finish(t, "getConfig", <<>>, m_config[s], [IdleLoc EXCEPT !.self = s])
    /\ pre' = [pre EXCEPT ![t] = ConfigOf(s)]
    /\ UNCHANGED <<sessionVars, m_mutex, staticVars, appVars>>

\* isInitialized(): lock, read m_initialized, unlock
IsInitialized(t, s) ==
    /\ pc[t] = "idle"
    /\ alive[s]
    /\ CanLock(t, s)
    /\ Finish(t, "isInitialized", <<>>, m_initialized[s], [IdleLoc EXCEPT !.self = s])
    /\ pre' = [pre EXCEPT ![t] = ConfigOf(s)]
    /\ UNCHANGED <<sessionVars, m_mutex, staticVars, appVars>>

\* The list GetAvailableLanguagesAsVector fills.
EngineLanguages == <<"eng", "eng+equ">>

\* getAvailableLanguages(): lock; empty unless initialized, else ask the engine
GetAvailableLanguages(t, s) ==
    /\ pc[t] = "idle"
    /\ alive[s]
    /\ CanLock(t, s)
    /\ IF ~m_initialized[s]
       THEN Finish(t, "getAvailableLanguages", <<>>, <<>>, [IdleLoc EXCEPT !.self = s])
       ELSE Finish(t, "getAvailableLanguages", <<>>, EngineLanguages,
                   NoteEngineCall([IdleLoc EXCEPT !.self = s], s))
    /\ pre' = [pre EXCEPT ![t] = ConfigOf(s)]
    /\ UNCHANGED <<sessionVars, m_mutex, staticVars, appVars>>

CallSetConfig(t, s, c) ==
    /\ alive[s]
    /\ Start(t, s, "setConfig", "sc_assign", [IdleLoc EXCEPT !.cfg = c])

\* (mutant) setConfig keeps the language the engine was initialized with
SCStoredKeepsLanguage(config, old) == [config EXCEPT !.language = old.language]

\* The configuration setConfig(config) stores.
SCStored(config, old) == config

\* QMutexLocker locker(&m_mutex); m_config = config
SCAssign(t) ==
    /\ pc[t] = "sc_assign"
    /\ CanLock(t, Self(t))
    /\ Lock(t, Self(t))
    /\ m_config' = [m_config EXCEPT ![Self(t)] = SCStored(loc[t].cfg, @)]
    /\ Goto(t, "sc_apply")
    /\ UNCHANGED <<alive, m_tesseractAPI, m_initialized, m_tesseractDataPath, engine,
                   staticVars, appVars, stack, loc, ret, pre>>

\* return applyConfiguration() (the locker unlocks)
SCApply(t) ==
    /\ pc[t] = "sc_apply"
    /\ engine' = ApplyConfigurationEngine(Self(t), m_config[Self(t)])
    /\ Unlock(t, Self(t))
    /\ Finish(t, "setConfig", loc[t].cfg, ApplyConfigurationOk(Self(t)),
              NoteEngineCall(loc[t], Self(t)))
    /\ UNCHANGED <<alive, m_tesseractAPI, m_config, m_initialized, m_tesseractDataPath,
                   staticVars, appVars, pre>>

(***************************************************************************)
(* Construction, moves and destruction. The caller runs them while no      *)
(* thread is inside a call on a session.                                   *)
(***************************************************************************)
Quiescent == \A u \in Threads : pc[u] = "idle"

\* The configurations a session is constructed with: the callers' ones and one
\* whose language the engine does not have.
ConstructInputs == ConfigInputs \cup {[DefaultConfig EXCEPT !.language = "deu"]}

\* cleanupTesseract(): End() on the handle, if any.
EndedEngine(h) == IF h = Null THEN engine ELSE [engine EXCEPT ![h].state = "ended"]

\* A TessBaseAPI object that has been deleted: nothing of it is left.
FreedEngine == [FreshEngine EXCEPT !.state = "freed"]

\* ~TessBaseAPI through the unique_ptr, on top of e.
Released(e, h) == IF h = Null THEN e ELSE [e EXCEPT ![h] = FreedEngine]

Lifecycle(t, op, s, val) ==
    /\ pc[t] = "idle"
    /\ Goto(t, "idle")
    /\ ret' = [ret EXCEPT ![t] = [NoCall EXCEPT !.op = op, !.self = s, !.val = val]]
    /\ pre' = [pre EXCEPT ![t] = ConfigOf(s)]
    /\ UNCHANGED <<m_mutex, staticVars, appVars, stack, loc>>

\* The engine object after Init(datapath, language) returned status.
InitializedEngine(e, datapath, language, status) ==
    [e EXCEPT !.state = IF status = 0 THEN "live" ELSE "failed",
              !.language = language, !.dataPath = datapath]

\* (mutant) the constructor ignores initializeTesseract's result
ConstructNeverThrows(status) == FALSE

\* if (!initializeTesseract()) throw ...: initializeTesseract returns
\* result == 0 (applyConfiguration cannot fail here, the handle is not null)
ConstructThrows(status) == status # 0

\* OCRProcessor(const OCRConfig&): make_unique, initializeTesseract,
\* applyConfiguration, m_initialized = true; a failed Init throws and the
\* members are destroyed. The value noted is the constructor's outcome with
\* the path the probe found, the path Init() read and Init()'s status.
Construct(t, s, c) ==
    /\ Quiescent
    /\ ~alive[s]
    /\ \E h \in Handles :
          /\ engine[h].state = "none"
          /\ \A g \in Handles : g < h => engine[g].state # "none"
          /\ \E seen \in InitDataPaths(ProbeDataPath) :
                LET dataPath == ProbeDataPath
                    status == EngineInitStatus(seen, c.language)
                    inited == InitializedEngine(engine[h], seen, c.language, status)
                    val == [ok |-> ~ConstructThrows(status), config |-> c,
                            dataPath |-> dataPath, seen |-> seen, status |-> status]
                IN  IF ConstructThrows(status)
                    THEN /\ engine' = Released([engine EXCEPT ![h] = inited], h)
                         /\ UNCHANGED <<alive, m_tesseractAPI, m_config, m_initialized,
                                        m_tesseractDataPath>>
                         /\ Lifecycle(t, "construct", s, val)
                    ELSE /\ engine' = [engine EXCEPT ![h] = ConfiguredEngine(inited, c)]
                         /\ alive' = [alive EXCEPT ![s] = TRUE]
                         /\ m_tesseractAPI' = [m_tesseractAPI EXCEPT ![s] = h]
                         /\ m_config' = [m_config EXCEPT ![s] = c]
                         /\ m_initialized' = [m_initialized EXCEPT ![s] = TRUE]
                         /\ m_tesseractDataPath' = [m_tesseractDataPath EXCEPT
                                                       ![s] = dataPath]
                         /\ Lifecycle(t, "construct", s, val)

\* What a move notes: the source and what it held before the move.
MoveNote(src) ==
    [src |-> src, handle |-> m_tesseractAPI[src], config |-> m_config[src],
     initialized |-> m_initialized[src]]

\* (mutant) the move leaves the source's flag set
MovedFromKeepsFlag == TRUE

\* m_initialized of the source after a move.
MovedFromInitialized == FALSE

\* OCRProcessor(OCRProcessor&& other): the QString members are left empty.
MoveConstruct(t, dst, src) ==
    /\ Quiescent
    /\ ~alive[dst] /\ alive[src]
    /\ alive' = [alive EXCEPT ![dst] = TRUE]
    /\ m_tesseractAPI' = [m_tesseractAPI EXCEPT ![dst] = m_tesseractAPI[src],
                                                ![src] = Null]
    /\ m_config' = [m_config EXCEPT ![dst] = m_config[src],
                                    ![src].language = MovedFromString]
    /\ m_initialized' = [m_initialized EXCEPT ![dst] = m_initialized[src],
                                              ![src] = MovedFromInitialized]
    /\ m_tesseractDataPath' = [m_tesseractDataPath EXCEPT
                                  ![dst] = m_tesseractDataPath[src],
                                  ![src] = MovedFromString]
    /\ UNCHANGED engine
    /\ Lifecycle(t, "move-construct", dst, MoveNote(src))

\* operator=(OCRProcessor&& other): cleanupTesseract, then the members are
\* move-assigned (QString's move assignment swaps).
MoveAssign(t, dst, src) ==
    /\ Quiescent
    /\ alive[dst] /\ alive[src]
    /\ IF dst = src
       THEN UNCHANGED sessionVars
       ELSE /\ engine' = Released(EndedEngine(m_tesseractAPI[dst]), m_tesseractAPI[dst])
            /\ m_tesseractAPI' = [m_tesseractAPI EXCEPT ![dst] = m_tesseractAPI[src],
                                                        ![src] = Null]
            /\ m_config' = [m_config EXCEPT ![dst] = m_config[src],
                                            ![src].language = m_config[dst].language]
            /\ m_initialized' = [m_initialized EXCEPT ![dst] = m_initialized[src],
                                                      ![src] = MovedFromInitialized]
            /\ m_tesseractDataPath' = [m_tesseractDataPath EXCEPT
                                          ![dst] = m_tesseractDataPath[src],
                                          ![src] = m_tesseractDataPath[dst]]
            /\ UNCHANGED alive
    /\ Lifecycle(t, "move-assign", dst, MoveNote(src))

\* ~OCRProcessor(): cleanupTesseract, then the members are destroyed.
Destroy(t, s) ==
    /\ Quiescent
    /\ alive[s]
    /\ engine' = Released(EndedEngine(m_tesseractAPI[s]), m_tesseractAPI[s])
    /\ alive' = [alive EXCEPT ![s] = FALSE]
    /\ m_tesseractAPI' = [m_tesseractAPI EXCEPT ![s] = Null]
    /\ m_initialized' = [m_initialized EXCEPT ![s] = FALSE]
    /\ m_config' = [m_config EXCEPT ![s] = DefaultConfig]
    /\ m_tesseractDataPath' = [m_tesseractDataPath EXCEPT ![s] = ""]
    /\ Lifecycle(t, "destroy", s, <<>>)

(***************************************************************************)
(* The project cleanup utility (cleanup_main.cpp).                         *)
(*                                                                         *)
(* The project directory is a tree of entries; an entry has the name       *)
(* path.filename() gives, the directory it is in, its kind and, for a      *)
(* regular file, its size.  Names are character sequences, so that         *)
(* extension(), tolower and the suffix comparison are computed.            *)
(***************************************************************************)
\* fs::current_path(), the project root.
Root == 0

\* The entries a project directory may hold: main.cpp, A.TMP, build/gen.cpp,
\* src/.vscode, src/.Idea, src/old.bak/util.h and src/x~.
Entries ==
    <<[name |-> <<"m", "a", "i", "n", ".", "c", "p", "p">>, parent |-> Root, kind |-> "file", size |-> 3],
      [name |-> <<"A", ".", "T", "M", "P">>, parent |-> Root, kind |-> "file", size |-> 1],
      [name |-> <<"b", "u", "i", "l", "d">>, parent |-> Root, kind |-> "dir", size |-> 0],
      [name |-> <<"g", "e", "n", ".", "c", "p", "p">>, parent |-> 3, kind |-> "file", size |-> 2],
      [name |-> <<"s", "r", "c">>, parent |-> Root, kind |-> "dir", size |-> 0],
      [name |-> <<".", "v", "s", "c", "o", "d", "e">>, parent |-> 5, kind |-> "dir", size |-> 0],
      [name |-> <<".", "I", "d", "e", "a">>, parent |-> 5, kind |-> "dir", size |-> 0],
      [name |-> <<"o", "l", "d", ".", "b", "a", "k">>, parent |-> 5, kind |-> "dir", size |-> 0],
      [name |-> <<"u", "t", "i", "l", ".", "h">>, parent |-> 8, kind |-> "file", size |-> 4],
      [name |-> <<"x", "~">>, parent |-> 5, kind |-> "file", size |-> 1]>>

EntryIds == 1..Len(Entries)

\* The trees: every entry is in a directory of the tree.
Trees ==
    {d \in SUBSET EntryIds :
        \A e \in d : Entries[e].parent = Root
                     \/ (Entries[e].parent \in d /\ Entries[Entries[e].parent].kind = "dir")}

\* The static lists of ProjectCleanup.
unwantedExtensions ==
    <<<<".", "t", "m", "p">>,
      <<".", "b", "a", "k">>,
      <<".", "s", "w", "p">>,
      <<".", "s", "w", "o">>,
      <<".", "l", "o", "g">>,
      <<".", "c", "a", "c", "h", "e">>,
      <<".", "o", "l", "d">>,
      <<".", "o", "r", "i", "g">>,
      <<".", "r", "e", "j">>,
      <<".", "p", "a", "t", "c", "h">>,
      <<".", "d", "i", "f", "f">>,
      <<".", "p", "y", "c">>,
      <<".", "p", "y", "o">>,
      <<".", "c", "l", "a", "s", "s">>,
      <<".", "o">>,
      <<".", "o", "b", "j">>,
      <<".", "e", "x", "e", ".", "b", "a", "k">>,
      <<".", "d", "l", "l", ".", "b", "a", "k">>,
      <<".", "s", "o", ".", "b", "a", "k">>>>

unwantedDirectories ==
    <<<<"b", "u", "i", "l", "d">>,
      <<"d", "e", "b", "u", "g">>,
      <<"r", "e", "l", "e", "a", "s", "e">>,
      <<".", "v", "s">>,
      <<".", "i", "d", "e", "a">>,
      <<"c", "m", "a", "k", "e", "-", "b", "u", "i", "l", "d", "-", "d", "e", "b", "u", "g">>,
      <<"c", "m", "a", "k", "e", "-", "b", "u", "i", "l", "d", "-", "r", "e", "l", "e", "a", "s", "e">>,
      <<"_", "_", "p", "y", "c", "a", "c", "h", "e", "_", "_">>,
      <<".", "p", "y", "t", "e", "s", "t", "_", "c", "a", "c", "h", "e">>,
      <<"n", "o", "d", "e", "_", "m", "o", "d", "u", "l", "e", "s">>,
      <<".", "s", "v", "n">>,
      <<".", "h", "g">>,
      <<"b", "i", "n">>,
      <<"o", "b", "j">>,
      <<"o", "u", "t">>,
      <<"d", "i", "s", "t">>,
      <<"c", "m", "a", "k", "e", "-", "b", "u", "i", "l", "d", "-", "r", "e", "l", "w", "i", "t", "h", "d", "e", "b", "i", "n", "f", "o">>,
      <<"c", "m", "a", "k", "e", "-", "b", "u", "i", "l", "d", "-", "m", "i", "n", "s", "i", "z", "e", "r", "e", "l">>>>

unwantedFiles ==
    <<<<"~">>,
      <<".", "t", "m", "p">>,
      <<".", "s", "w", "p">>,
      <<".", "s", "w", "o">>>>

\* The names isUnwantedFile compares the lower-cased file name with.
unwantedLowerNames ==
    <<<<".", "d", "s", "_", "s", "t", "o", "r", "e">>,
      <<"t", "h", "u", "m", "b", "s", ".", "d", "b">>,
      <<"d", "e", "s", "k", "t", "o", "p", ".", "i", "n", "i">>>>

GitignoreBak == <<".", "g", "i", "t", "i", "g", "n", "o", "r", "e", ".", "b", "a", "k">>
\* fs::path::extension: the file name from its last period on; empty when
\* there is none or when the only period is the first character.
Extension(filename) ==
    LET dots == {i \in 1..Len(filename) : filename[i] = "."}
    IN  IF dots = {} THEN <<>>
        ELSE LET last == CHOOSE i \in dots : \A j \in dots : j <= i
             IN  IF last = 1 THEN <<>> ELSE SubSeq(filename, last, Len(filename))

\* filename.compare(filename.size() - pattern.size(), pattern.size(), pattern) == 0
EndsWith(filename, pattern) ==
    /\ Len(filename) >= Len(pattern)
    /\ SubSeq(filename, Len(filename) - Len(pattern) + 1, Len(filename)) = pattern

\* isUnwantedFile: it looks at the name only, whatever the entry is.
IsUnwantedFile(p) ==
    LET filename == Entries[p].name
        extension == ToLower(Extension(filename))
        lowerFilename == ToLower(filename)
    IN  \/ Contains(unwantedExtensions, extension)
        \/ \E i \in 1..Len(unwantedFiles) : EndsWith(filename, unwantedFiles[i])
        \/ Contains(unwantedLowerNames, lowerFilename)
        \/ filename = GitignoreBak

\* fs::is_directory and fs::is_regular_file on the tree d.
IsDirectory(p, d) == p = Root \/ (p \in d /\ Entries[p].kind = "dir")

IsRegularFile(p, d) == p # Root /\ p \in d /\ Entries[p].kind = "file"

\* isUnwantedDirectory
IsUnwantedDirectory(p, d) ==
    /\ IsDirectory(p, d)
    /\ p # Root
    /\ Contains(unwantedDirectories, ToLower(Entries[p].name))

\* fs::directory_iterator(dir): the entries of one directory.
DirectoryEntries(dir, d) == {e \in d : Entries[e].parent = dir}

\* fs::recursive_directory_iterator(p), and p itself: what remove_all removes.
RECURSIVE Subtree(_, _)
Subtree(p, d) == {p} \cup UNION {Subtree(c, d) : c \in DirectoryEntries(p, d)}

RECURSIVE SumOfSizes(_)
SumOfSizes(files) ==
    IF files = {} THEN 0
    ELSE LET f == CHOOSE x \in files : TRUE
         IN  Entries[f].size + SumOfSizes(files \ {f})

\* getFileSize
GetFileSize(p, d) ==
    IF IsRegularFile(p, d) THEN Entries[p].size
    ELSE IF IsDirectory(p, d)
         THEN SumOfSizes({e \in Subtree(p, d) \ {p} : IsRegularFile(e, d)})
         ELSE 0

\* (mutant) the dry-run flag is not consulted before removing
RemoveItemAlways(p, d, dry) == d \ Subtree(p, d)

\* The tree after the second pass has dealt with item p: fs::remove_all or
\* fs::remove, unless dryRun.
RemoveItem(p, d, dry) == IF dry THEN d ELSE d \ Subtree(p, d)

\* (mutant) the counter is incremented in the deleting branch only
IncrementIfDeleted(n, dry) == IF dry THEN n ELSE n + 1

\* deletedDirs++ and deletedFiles++, after the if (dryRun) ... else ...
Increment(n, dry) == n + 1

\* The line the second pass prints for an item.
OutputLine(p, d, dry) ==
    [text |-> IF dry THEN "Would delete" ELSE "Deleted",
     what |-> IF IsDirectory(p, d) THEN "directory" ELSE "file",
     path |-> p, size |-> GetFileSize(p, d)]

\* A call of cleanDirectory(dir): the entries the first pass has seen and
\* the vector itemsToDelete.
Frame(dir) == [dir |-> dir, seen |-> {}, itemsToDelete |-> <<>>]

\* The ProjectCleanup object of a process that has not called run().
NotStarted ==
    [phase |-> "main", dryRun |-> FALSE, deletedFiles |-> 0, deletedDirs |-> 0,
     totalSize |-> 0, frames |-> <<>>, output |-> <<>>, before |-> {}]

\* Every action of the utility leaves the OCR sessions alone.
ocrVars == <<sessionVars, m_mutex, staticVars, threadVars>>

\* The processes of the utility a behaviour has.
MaxRuns == 2

\* main: a process of the utility starts, with or without --dry-run, and
\* run(isDryRun) calls cleanDirectory(projectRoot, true).
Run(isDryRun) ==
    /\ cleanup.phase \in {"main", "exited"}
    /\ Len(runs) < MaxRuns
    /\ cleanup' = [NotStarted EXCEPT !.phase = "cleanDirectory",
                                     !.dryRun = isDryRun,
                                     !.frames = <<Frame(Root)>>,
                                     !.before = disk]
    /\ UNCHANGED <<ocrVars, windowVars, disk, runs>>

\* The innermost call of cleanDirectory.
Top == cleanup.frames[Len(cleanup.frames)]

\* The entries the first pass of the innermost call has still to visit.
Unseen == DirectoryEntries(Top.dir, disk) \ Top.seen

\* One iteration of the first pass, in the order the directory iterator
\* happens to give: the entry is collected, or it is a directory that is
\* cleaned by a recursive call, or it is passed over.
CDScan ==
    /\ cleanup.phase = "cleanDirectory"
    /\ cleanup.frames # <<>>
    /\ \E path \in Unseen :
          LET n == Len(cleanup.frames)
              seen == [cleanup.frames EXCEPT ![n].seen = @ \cup {path}]
          IN  cleanup' =
                 IF IsUnwantedDirectory(path, disk) \/ IsUnwantedFile(path)
                 THEN [cleanup EXCEPT !.frames =
                          [seen EXCEPT ![n].itemsToDelete = Append(@, path)]]
                 ELSE IF IsDirectory(path, disk) /\ ~IsUnwantedDirectory(path, disk)
                      THEN [cleanup EXCEPT !.frames = Append(seen, Frame(path))]
                      ELSE [cleanup EXCEPT !.frames = seen]
    /\ UNCHANGED <<ocrVars, windowVars, disk, runs>>

\* One iteration of the second pass: the item is measured, removed unless
\* dryRun, reported and counted.
CDDelete ==
    /\ cleanup.phase = "cleanDirectory"
    /\ cleanup.frames # <<>>
    /\ Unseen = {}
    /\ Top.itemsToDelete # <<>>
    /\ LET n == Len(cleanup.frames)
           path == Head(Top.itemsToDelete)
           itemSize == GetFileSize(path, disk)
           isDir == IsDirectory(path, disk)
           dry == cleanup.dryRun
       IN  /\ disk' = RemoveItem(path, disk, dry)
           /\ cleanup' =
                 [cleanup EXCEPT
                    !.frames[n].itemsToDelete = Tail(@),
                    !.deletedDirs = IF isDir THEN Increment(@, dry) ELSE @,
                    !.deletedFiles = IF isDir THEN @ ELSE Increment(@, dry),
                    !.totalSize = @ + itemSize,
                    !.output = Append(@, OutputLine(path, disk, dry))]
    /\ UNCHANGED <<ocrVars, windowVars, runs>>

\* Both passes of the innermost call are over: cleanDirectory returns.
CDReturn ==
    /\ cleanup.phase = "cleanDirectory"
    /\ cleanup.frames # <<>>
    /\ Unseen = {}
    /\ Top.itemsToDelete = <<>>
    /\ cleanup' = [cleanup EXCEPT !.frames = SubSeq(@, 1, Len(@) - 1)]
    /\ UNCHANGED <<ocrVars, windowVars, disk, runs>>

\* The last line run() prints.
ClosingMessage(c) ==
    IF c.deletedFiles = 0 /\ c.deletedDirs = 0 THEN "Project directory is already clean!"
    ELSE IF c.dryRun THEN "Run without --dry-run to actually delete these files."
    ELSE ""

\* cleanDirectory(projectRoot) has returned: run() prints the summary and
\* the process exits.  runs keeps what each process did, with the lines it
\* printed as a set.
RunFinish ==
    /\ cleanup.phase = "cleanDirectory"
    /\ cleanup.frames = <<>>
    /\ cleanup' = [cleanup EXCEPT !.phase = "exited"]
    /\ runs' = Append(runs, [dryRun |-> cleanup.dryRun, before |-> cleanup.before,
                             after |-> disk,
                             deletedFiles |-> cleanup.deletedFiles,
                             deletedDirs |-> cleanup.deletedDirs,
                             totalSize |-> cleanup.totalSize,
                             output |-> Range(cleanup.output),
                             message |-> ClosingMessage(cleanup)])
    /\ UNCHANGED <<ocrVars, windowVars, disk>>

(***************************************************************************)
(* The main window (mainwindow.cpp).                                       *)
(*                                                                         *)
(* mainwindow.cpp defines onStartOCR, onClearResults and onConfigureOCR     *)
(* twice: at lines 458-521 (the recognition is simulated by a timer) and    *)
(* at lines 687-851 (the recognition is a call of the OCR session).  A      *)
(* program has one definition of each; window.build says which.             *)
(***************************************************************************)
Builds == {"simulated", "tesseract"}

\* The window when the constructor has returned.
InitialWindow(build) ==
    [build |-> build, m_currentFilePath |-> "", m_operationInProgress |-> FALSE,
     startEnabled |-> FALSE, openEnabled |-> TRUE, configureEnabled |-> TRUE,
     clearEnabled |-> FALSE, saveEnabled |-> FALSE, exportEnabled |-> FALSE,
     progressVisible |-> FALSE, results |-> FALSE,
     finishTimers |-> 0, hideTimers |-> 0, handler |-> "eventloop", started |-> 0]

\* The files the user opens or drops.
WindowFiles == {"SCAN.PNG", "notes.txt", "broken.jpg"}

\* imageExtensions of dropEvent.
imageExtensions ==
    << <<"p", "n", "g">>, <<"j", "p", "g">>, <<"j", "p", "e", "g">>, <<"b", "m", "p">>,
       <<"g", "i", "f">>, <<"t", "i", "f", "f">>, <<"p", "d", "f">> >>

\* The operations started in a behaviour.
MaxOperations == 3

\* The GUI thread, and the session m_ocrProcessor points to.
GuiThread == 1
m_ocrProcessor == 1

\* setOperationEnabled(enabled)
SetOperationEnabled(w, enabled) ==
    [w EXCEPT !.openEnabled = enabled,
              !.startEnabled = enabled /\ w.m_currentFilePath # "",
              !.configureEnabled = enabled]

\* onOperationCompleted()
OnOperationCompleted(w) ==
    [SetOperationEnabled([w EXCEPT !.m_operationInProgress = FALSE], TRUE)
        EXCEPT !.progressVisible = FALSE]

\* The event loop is running: no slot is being executed.
InEventLoop == window.handler = "eventloop" /\ pc[GuiThread] = "idle"

\* onOpenFile: the open button or action is triggered; the dialog returns
\* fileName, empty when the user cancels it.
OnOpenFile(fileName) ==
    /\ InEventLoop
    /\ window.openEnabled
    /\ window' = IF fileName # ""
                 THEN [window EXCEPT !.m_currentFilePath = fileName,
                                     !.startEnabled = TRUE]
                 ELSE window
    /\ UNCHANGED <<ocrVars, toolVars>>

\* dropEvent: the user drops one local file on the window.
DropEvent(filePath) ==
    /\ InEventLoop
    /\ window' = IF Contains(imageExtensions, ToLower(Files[filePath].suffix))
                 THEN [window EXCEPT !.m_currentFilePath = filePath,
                                     !.startEnabled = TRUE]
                 ELSE window
    /\ UNCHANGED <<ocrVars, toolVars>>

\* onStartOCR, lines 458-499: the start button is clicked.
OnStartOCRSimulated ==
    /\ InEventLoop
    /\ window.build = "simulated"
    /\ window.startEnabled
    /\ window.started < MaxOperations
    /\ window' =
          IF window.m_currentFilePath = ""
          THEN window
          ELSE [SetOperationEnabled([window EXCEPT !.m_operationInProgress = TRUE],
                                    FALSE)
                   EXCEPT !.progressVisible = TRUE,
                          !.finishTimers = @ + 1,
                          !.started = @ + 1]
    /\ UNCHANGED <<ocrVars, toolVars>>

\* The lambda of the first QTimer::singleShot(2000) of onStartOCR.
FinishTimer ==
    /\ InEventLoop
    /\ window.finishTimers > 0
    /\ window' =
          [SetOperationEnabled([window EXCEPT !.results = TRUE,
                                              !.saveEnabled = TRUE,
                                              !.exportEnabled = TRUE,
                                              !.clearEnabled = TRUE], TRUE)
              EXCEPT !.m_operationInProgress = FALSE,
                     !.finishTimers = @ - 1,
                     !.hideTimers = @ + 1]
    /\ UNCHANGED <<ocrVars, toolVars>>

\* The lambda of the second QTimer::singleShot(2000).
HideTimer ==
    /\ InEventLoop
    /\ window.hideTimers > 0
    /\ window' = [window EXCEPT !.progressVisible = FALSE, !.hideTimers = @ - 1]
    /\ UNCHANGED <<ocrVars, toolVars>>

\* onClearResults (lines 501-516, or 709-716): the clear button or action
\* is triggered.
OnClearResults ==
    /\ InEventLoop
    /\ window.clearEnabled
    /\ window' =
          IF window.build = "simulated"
          THEN [window EXCEPT !.results = FALSE, !.progressVisible = FALSE,
                              !.saveEnabled = FALSE, !.exportEnabled = FALSE,
                              !.clearEnabled = FALSE]
          ELSE [window EXCEPT !.results = FALSE, !.exportEnabled = FALSE]
    /\ UNCHANGED <<ocrVars, toolVars>>

\* onStartOCR, lines 687-707, and performOCROnCurrentImage up to its call of
\* m_ocrProcessor->performOCR(m_currentFilePath), which the GUI thread makes.
OnStartOCRTesseract ==
    /\ InEventLoop
    /\ window.build = "tesseract"
    /\ window.startEnabled
    /\ window.started < MaxOperations
    /\ window.m_currentFilePath # ""
    /\ alive[m_ocrProcessor]
    /\ window' =
          [SetOperationEnabled([window EXCEPT !.m_operationInProgress = TRUE], FALSE)
              EXCEPT !.progressVisible = TRUE,
                     !.handler = "performOCROnCurrentImage",
                     !.started = @ + 1]
    /\ Begin(GuiThread, m_ocrProcessor, "performOCR(path)", "pp_lock",
             [IdleLoc EXCEPT !.path = window.m_currentFilePath])
    /\ UNCHANGED toolVars

\* performOCR has returned to performOCROnCurrentImage: the result is shown
\* and onOperationCompleted() ends the operation.
POCReturn ==
    /\ window.handler = "performOCROnCurrentImage"
    /\ pc[GuiThread] = "idle"
    /\ LET result == ret[GuiThread].val
           shown == IF result.success
                    THEN [window EXCEPT !.results = TRUE,
                                        !.exportEnabled = @ \/ result.text # <<>>]
                    ELSE window
       IN  window' = [OnOperationCompleted(shown) EXCEPT !.handler = "eventloop"]
    /\ UNCHANGED <<ocrVars, toolVars>>

\* onConfigureOCR: the configure button or action is triggered.  Lines
\* 518-521 show a message box; lines 718-851 show a dialog and, when it is
\* accepted, call setConfig(newConfig).
OnConfigureOCR(accepted, newConfig) ==
    /\ InEventLoop
    /\ window.configureEnabled
    /\ IF window.build = "tesseract" /\ alive[m_ocrProcessor] /\ accepted
       THEN /\ window' = [window EXCEPT !.handler = "onConfigureOCR"]
            /\ Begin(GuiThread, m_ocrProcessor, "setConfig", "sc_assign",
                     [IdleLoc EXCEPT !.cfg = newConfig])
            /\ UNCHANGED toolVars
       ELSE UNCHANGED vars

\* setConfig has returned to onConfigureOCR.
ConfigureReturn ==
    /\ window.handler = "onConfigureOCR"
    /\ pc[GuiThread] = "idle"
    /\ window' = [window EXCEPT !.handler = "eventloop"]
    /\ UNCHANGED <<ocrVars, toolVars>>

\* The cleanup utility has not been started, in an empty project directory.
UtilityNotRun == disk = {} /\ cleanup = NotStarted /\ runs = <<>>

\* No main window is shown.
WindowNotShown == window = InitialWindow("simulated")

(***************************************************************************)
(* The initial state: session 1 has been constructed with one of the       *)
(* callers' configurations; no other session exists; no thread is in a     *)
(* call; the format cache is empty.                                        *)
(***************************************************************************)
OneSession ==
    /\ tessdata = StandardLayout
    /\ \E c \in ConfigInputs :
          /\ m_config = [s \in Sessions |-> IF s = 1 THEN c ELSE DefaultConfig]
          /\ engine = [h \in Handles |->
                          IF h = 1
                          THEN ConfiguredEngine(
                                   InitializedEngine(FreshEngine, ProbeDataPath,
                                                     c.language, 0), c)
                          ELSE FreshEngine]
    /\ alive = [s \in Sessions |-> s = 1]
    /\ m_tesseractAPI = [s \in Sessions |-> IF s = 1 THEN 1 ELSE Null]
    /\ m_initialized = [s \in Sessions |-> s = 1]
    /\ m_tesseractDataPath = [s \in Sessions |-> IF s = 1 THEN ProbeDataPath ELSE ""]
    /\ m_mutex = [s \in Sessions |-> Null]
    /\ s_supportedFormats = <<>>
    /\ s_supportedFormatsInitialized = FALSE
    /\ populations = 0
    /\ pc = [t \in Threads |-> "idle"]
    /\ stack = [t \in Threads |-> <<>>]
    /\ loc = [t \in Threads |-> IdleLoc]
    /\ ret = [t \in Threads |-> NoCall]
    /\ pre = [t \in Threads |-> DefaultConfig]

Init == OneSession /\ UtilityNotRun /\ WindowNotShown

\* One step of a thread inside a call; in holds the sets the environment's
\* answers are drawn from.
Step(t, in) ==
    \/ GFCheck(t) \/ GFClear(t) \/ GFLoop(t) \/ GFSetFlag(t) \/ GFReturn(t)
    \/ VIStart(t) \/ VIContains(t)
    \/ PILock(t) \/ PICheck(t) \/ PIConvert(t, in)
    \/ ETSetImage(t, in) \/ ETGetText(t, in) \/ ETConf(t, in) \/ ETReturn(t)
    \/ PIReturn(t)
    \/ PPLock(t) \/ PPCheck(t) \/ PPLoad(t) \/ PPReturn(t)
    \/ PMSave(t) \/ PMSet(t) \/ PMApply(t) \/ PMRestore(t) \/ PMReapply(t)
    \/ SCAssign(t) \/ SCApply(t)

\* A thread calls an operation of a session, with arguments from in.
CallSession(t, in) ==
    \E s \in Sessions :
       \/ \E p \in in.paths : CallPerformOCRPath(t, s, p)
       \/ \E img \in in.images : CallPerformOCRImage(t, s, img)
       \/ \E p \in in.paths, m \in in.modes : CallPerformOCRMode(t, s, p, m)
       \/ \E c \in in.configs : CallSetConfig(t, s, c)

\* A thread calls one of the static functions.
CallStatic(t, in) ==
    \/ CallGetSupportedFormats(t)
    \/ \E p \in in.paths : CallValidateImage(t, p)

\* A thread calls one of the short locked getters.
CallGetter(t) ==
    \E s \in Sessions :
       \/ GetConfig(t, s)
       \/ IsInitialized(t, s)
       \/ GetAvailableLanguages(t, s)

(***************************************************************************)
(* Spec: the threads call the operations of the one session concurrently.  *)
(***************************************************************************)
ConcurrentInputs ==
    [paths |-> {"SCAN.PNG", "notes.txt"}, modes |-> {"Equations"},
     configs |-> {EquationConfig}, images |-> {SmallImage},
     buffers |-> {[null |-> FALSE, chars |-> <<"x", "=", "1", "\n">>]},
     confs |-> {60}, throws |-> {FALSE}]

Next ==
    \E t \in Threads :
       \/ Step(t, ConcurrentInputs)
       \/ CallSession(t, ConcurrentInputs)

Spec == Init /\ [][Next]_vars

(***************************************************************************)
(* SpecStatic: the threads call the static functions concurrently.         *)
(***************************************************************************)
NextStatic ==
    \E t \in Threads :
       \/ GFCheck(t) \/ GFClear(t) \/ GFLoop(t) \/ GFSetFlag(t) \/ GFReturn(t)
       \/ VIStart(t) \/ VIContains(t)
       \/ CallStatic(t, [paths |-> Paths])

SpecStatic == Init /\ [][NextStatic]_vars

(***************************************************************************)
(* SpecSeq: one caller thread, every argument and every answer of the      *)
(* environment, and a session that is moved from.                          *)
(***************************************************************************)
SequentialInputs ==
    [paths |-> Paths, modes |-> Modes, configs |-> ConfigInputs, images |-> Images,
     buffers |-> EngineBuffers, confs |-> EngineConfs, throws |-> BOOLEAN]

NextSeq ==
    \/ Step(1, SequentialInputs)
    \/ CallSession(1, SequentialInputs)
    \/ CallStatic(1, SequentialInputs)
    \/ CallGetter(1)
    \/ \E dst, src \in Sessions : MoveConstruct(1, dst, src)

SpecSeq == Init /\ [][NextSeq]_vars

(***************************************************************************)
(* SpecRecognize: one caller recognizes images under configurations with   *)
(* and without confidence scoring and with thresholds at the ends and in   *)
(* the middle of 0..100; the engine answers with every buffer and with     *)
(* confidences below, at and above the thresholds.                         *)
(***************************************************************************)
RecognizeThresholds == {0, 1, 60, 100}
RecognizeConfs == {0, 1, 59, 60, 61, 100}

RecognizeConfigs ==
    {[DefaultConfig EXCEPT !.enableConfidenceScoring = e, !.minimumConfidence = m] :
        e \in BOOLEAN, m \in RecognizeThresholds}

RecognizeInputs ==
    [paths |-> {}, modes |-> {}, configs |-> RecognizeConfigs,
     images |-> Images \cup HugeImages,
     buffers |-> EngineBuffers, confs |-> RecognizeConfs, throws |-> BOOLEAN]

NextRecognize ==
    \/ \E s \in Sessions, img \in RecognizeInputs.images : CallPerformOCRImage(1, s, img)
    \/ \E s \in Sessions, c \in RecognizeInputs.configs : CallSetConfig(1, s, c)
    \/ PILock(1) \/ PICheck(1) \/ PIConvert(1, RecognizeInputs)
    \/ ETSetImage(1, RecognizeInputs) \/ ETGetText(1, RecognizeInputs)
    \/ ETConf(1, RecognizeInputs) \/ ETReturn(1)
    \/ PIReturn(1)
    \/ SCAssign(1) \/ SCApply(1)

SpecRecognize == Init /\ [][NextRecognize]_vars

\* The process before any OCRProcessor is constructed.
NoSessions ==
    /\ alive = [s \in Sessions |-> FALSE]
    /\ m_tesseractAPI = [s \in Sessions |-> Null]
    /\ m_config = [s \in Sessions |-> DefaultConfig]
    /\ m_initialized = [s \in Sessions |-> FALSE]
    /\ m_tesseractDataPath = [s \in Sessions |-> ""]
    /\ m_mutex = [s \in Sessions |-> Null]
    /\ engine = [h \in Handles |-> FreshEngine]
    /\ s_supportedFormats = <<>>
    /\ s_supportedFormatsInitialized = FALSE
    /\ populations = 0
    /\ pc = [t \in Threads |-> "idle"]
    /\ stack = [t \in Threads |-> <<>>]
    /\ loc = [t \in Threads |-> IdleLoc]
    /\ ret = [t \in Threads |-> NoCall]
    /\ pre = [t \in Threads |-> DefaultConfig]

(***************************************************************************)
(* SpecLife: the program from its start, on each layout of the machine:    *)
(* one thread constructs, moves and destroys sessions and calls their      *)
(* operations in between.                                                  *)
(***************************************************************************)
InitLife ==
    /\ tessdata \in Layouts
    /\ NoSessions
    /\ UtilityNotRun
    /\ WindowNotShown

LifeInputs ==
    [paths |-> {"notes.txt", "broken.jpg"}, modes |-> {"Equations"},
     configs |-> {EquationConfig}, images |-> {SmallImage},
     buffers |-> {[null |-> FALSE, chars |-> <<"x", "=", "1", "\n">>]},
     confs |-> {60}, throws |-> {FALSE}]

NextLife ==
    \/ Step(1, LifeInputs)
    \/ CallSession(1, LifeInputs)
    \/ CallStatic(1, LifeInputs)
    \/ CallGetter(1)
    \/ \E s \in Sessions, c \in ConstructInputs : Construct(1, s, c)
    \/ \E dst, src \in Sessions : MoveConstruct(1, dst, src)
    \/ \E dst, src \in Sessions : MoveAssign(1, dst, src)
    \/ \E s \in Sessions : Destroy(1, s)

SpecLife == InitLife /\ [][NextLife]_vars

(***************************************************************************)
(* SpecModes: the threads call only performOCR(path, mode), on the session *)
(* constructed with the default configuration.                             *)
(***************************************************************************)
InitModes == Init /\ m_config[1] = DefaultConfig

ModesInputs == [paths |-> {"broken.jpg"}, modes |-> {"Equations", "Mixed"}]

NextModes ==
    \E t \in Threads :
       \/ \E p \in ModesInputs.paths, m \in ModesInputs.modes :
             CallPerformOCRMode(t, 1, p, m)
       \/ PMSave(t) \/ PMSet(t) \/ PMApply(t)
       \/ PPLock(t) \/ PPCheck(t)
       \/ VIStart(t)
       \/ GFCheck(t) \/ GFClear(t) \/ GFLoop(t) \/ GFSetFlag(t) \/ GFReturn(t)
       \/ VIContains(t)
       \/ PPLoad(t) \/ PPReturn(t)
       \/ PMRestore(t) \/ PMReapply(t)

SpecModes == InitModes /\ [][NextModes]_vars

(***************************************************************************)
(* SpecCleanup: the cleanup utility is run, up to MaxRuns times, with or   *)
(* without --dry-run, in each of the project trees.  No session exists: the *)
(* utility does not use the OCR classes.                                    *)
(***************************************************************************)
InitCleanup ==
    /\ tessdata = StandardLayout
    /\ NoSessions
    /\ disk \in Trees
    /\ cleanup = NotStarted
    /\ runs = <<>>
    /\ WindowNotShown

NextCleanup ==
    \/ \E isDryRun \in BOOLEAN : Run(isDryRun)
    \/ CDScan
    \/ CDDelete
    \/ CDReturn
    \/ RunFinish

SpecCleanup == InitCleanup /\ [][NextCleanup]_vars

(***************************************************************************)
(* SpecWindow: the user works with the main window of either build; the    *)
(* window's session has been constructed with the default configuration.   *)
(***************************************************************************)
InitWindow ==
    /\ OneSession
    /\ m_config[m_ocrProcessor] = DefaultConfig
    /\ UtilityNotRun
    /\ \E build \in Builds : window = InitialWindow(build)

\* The steps of the GUI thread inside performOCR(path) and setConfig.  Once
\* the image is loaded the thread waits at the lock of performOCR(image),
\* which it holds itself.
WindowStep(t) ==
    \/ PPLock(t) \/ PPCheck(t)
    \/ VIStart(t)
    \/ GFCheck(t) \/ GFClear(t) \/ GFLoop(t) \/ GFSetFlag(t) \/ GFReturn(t)
    \/ VIContains(t)
    \/ PPLoad(t) \/ PPReturn(t)
    \/ SCAssign(t) \/ SCApply(t)

NextWindow ==
    \/ \E fileName \in WindowFiles \cup {""} : OnOpenFile(fileName)
    \/ \E filePath \in WindowFiles : DropEvent(filePath)
    \/ OnStartOCRSimulated
    \/ FinishTimer
    \/ HideTimer
    \/ OnClearResults
    \/ OnStartOCRTesseract
    \/ WindowStep(GuiThread)
    \/ POCReturn
    \/ \E accepted \in BOOLEAN : OnConfigureOCR(accepted, EquationConfig)
    \/ ConfigureReturn

SpecWindow == InitWindow /\ [][NextWindow]_vars

\* The directories an entry is in, below the root.
RECURSIVE Ancestors(_)
Ancestors(e) ==
    IF Entries[e].parent = Root THEN {}
    ELSE {Entries[e].parent} \cup Ancestors(Entries[e].parent)

\* The condition of the first pass for collecting an entry.
Collected(e, d) == IsUnwantedDirectory(e, d) \/ IsUnwantedFile(e)

\* The items a walk of the tree d collects: the entries that meet the
\* condition and are in no directory that meets it.
WouldDelete(d) ==
    {e \in d : Collected(e, d) /\ \A a \in Ancestors(e) : ~Collected(a, d)}

\* The paths a run printed a line for, and the items it removed: the entries
\* that are gone while the directory they were in is still there.
Reported(run) == {line.path : line \in run.output}

Removed(run) ==
    {e \in run.before \ run.after :
        Entries[e].parent = Root \/ Entries[e].parent \in run.after}

(***************************************************************************)
(* Vocabulary of the properties.                                           *)
(***************************************************************************)
\* The labels inside extractText: the thread is between SetImage and the
\* return of the recognition.
RecognitionLabels == {"et_setimage", "et_gettext", "et_conf", "et_return"}

Recognizing(s) == {t \in Threads : pc[t] \in RecognitionLabels /\ Self(t) = s}

\* The labels whose next statement reads or writes m_config or calls the
\* engine handle.
AccessLabels ==
    {"pm_save", "pm_set", "pm_apply", "pm_restore", "pm_reapply", "sc_apply",
     "pi_convert"} \cup RecognitionLabels

\* The decoder's formats that are OCR formats, as a set.
ExpectedFormats == {f \in Range(DecoderFormats) : IsOCRFormat(f)}

\* Path p names an existing regular file with a supported extension.
ValidPath(p) ==
    /\ Files[p].exists
    /\ Files[p].isFile
    /\ ToLower(Files[p].suffix) \in ExpectedFormats

Overloads == {"performOCR(path)", "performOCR(image)", "performOCR(path,mode)"}

\* The outermost call of thread t is fn.
InCall(t, fn) == stack[t] # <<>> /\ stack[t][1] = fn

(***************************************************************************)
(* C1. Two recognitions never overlap: on every session at most one thread *)
(* at a time is inside extractText (SetImage / GetUTF8Text / MeanTextConf).*)
(***************************************************************************)
C1_RecognitionsNeverOverlap == \A s \in Sessions : Cardinality(Recognizing(s)) <= 1

\* One thread is in the middle of a recognition while another one waits for
\* the mutex of the same session in performOCR(image).
C1_Witness ==
    \E t, u \in Threads :
       /\ t # u
       /\ pc[t] = "et_gettext"
       /\ pc[u] = "pi_lock"
       /\ Self(u) = Self(t)

(***************************************************************************)
(* C2. Every performOCR(path) call on an initialized session with a valid, *)
(* decodable path terminates with the mutex released: the call is never    *)
(* left waiting for a mutex that only it could release.                    *)
(***************************************************************************)
C2_PathCallTerminates ==
    \A t \in Threads :
       (/\ InCall(t, "performOCR(path)")
        /\ ValidPath(loc[t].path)
        /\ ~Files[loc[t].path].image.null)
       => (ENABLED Step(t, SequentialInputs) \/ m_mutex[Self(t)] \notin {Null, t})

(***************************************************************************)
(* C3. Every read or write of m_config and every call that changes the     *)
(* engine handle happens while the calling thread holds m_mutex.           *)
(***************************************************************************)
C3_AccessUnderMutex ==
    \A t \in Threads : pc[t] \in AccessLabels => m_mutex[Self(t)] = t

(***************************************************************************)
(* C4. Mode override round trip: when performOCR(path, m) has returned,    *)
(* the stored mode is the one the call found, whatever the result.         *)
(***************************************************************************)
C4_ModeRoundTrip ==
    \A t \in Threads :
       ret[t].op = "performOCR(path,mode)" => m_config[ret[t].self].mode = pre[t].mode

\* A call with a mode other than the stored one has returned a failure.
C4_Witness ==
    \E t \in Threads :
       /\ ret[t].op = "performOCR(path,mode)"
       /\ ret[t].arg[2] # pre[t].mode
       /\ ~ret[t].val.success
       /\ ret[t].val.errorMessage = MsgInvalidFile(ret[t].arg[1])

(***************************************************************************)
(* C5. If setConfig(c) returned true, a getConfig() that is the next       *)
(* operation returns c, in all six fields.                                 *)
(***************************************************************************)
C5_GetConfigAfterSetConfig ==
    [][\A t \in Threads :
          (/\ ret[t].op = "setConfig"
           /\ ret[t].val = TRUE
           /\ ret'[t].op = "getConfig"
           /\ ret'[t].self = ret[t].self)
          => ret'[t].val = ret[t].arg]_vars

\* setConfig(c) has returned true for a c other than the stored
\* configuration, and getConfig() can run next.
C5_Witness ==
    \E t \in Threads :
       /\ ret[t].op = "setConfig"
       /\ ret[t].val = TRUE
       /\ ret[t].arg # pre[t]
       /\ ENABLED GetConfig(t, ret[t].self)

(***************************************************************************)
(* C6. If setConfig(c) returned false, the stored configuration is not     *)
(* replaced: a getConfig() that is the next operation returns the          *)
(* configuration stored before the setConfig call.                         *)
(***************************************************************************)
C6_FailedSetConfigKeepsConfig ==
    [][\A t \in Threads :
          (/\ ret[t].op = "setConfig"
           /\ ret[t].val = FALSE
           /\ ret'[t].op = "getConfig"
           /\ ret'[t].self = ret[t].self)
          => ret'[t].val = pre[t]]_vars

(***************************************************************************)
(* C7. On an initialized session, for a path that does not exist, is not a *)
(* regular file or has an unsupported extension, validateImage(path) is    *)
(* false and performOCR(path) fails with "Invalid or unsupported image     *)
(* file", without decoding the image and without a call on the engine.     *)
(***************************************************************************)
C7_InvalidPathRejected ==
    \A t \in Threads :
       /\ (ret[t].op = "validateImage" /\ ~ValidPath(ret[t].arg)) => ret[t].val = FALSE
       /\ (/\ ret[t].op = "performOCR(path)"
           /\ m_initialized[ret[t].self]
           /\ ~ValidPath(ret[t].arg))
          => /\ ~ret[t].val.success
             /\ ret[t].val.errorMessage = MsgInvalidFile(ret[t].arg)
             /\ ~ret[t].decoded
             /\ ~ret[t].engineCalled

\* performOCR has returned for a directory whose name ends in .png.
C7_Witness ==
    \E t \in Threads :
       /\ ret[t].op = "performOCR(path)"
       /\ m_initialized[ret[t].self]
       /\ Files[ret[t].arg].exists
       /\ ~Files[ret[t].arg].isFile

(***************************************************************************)
(* C8. On a session that is not initialized every performOCR overload      *)
(* fails with "OCR processor not initialized" and makes no call on the     *)
(* engine handle, and getAvailableLanguages() returns the empty list.      *)
(***************************************************************************)
C8_UninitializedSession ==
    \A t \in Threads :
       /\ (ret[t].op \in Overloads /\ ~m_initialized[ret[t].self])
          => /\ ~ret[t].val.success
             /\ ret[t].val.errorMessage = MsgNotInitialized
             /\ ~ret[t].engineCalled
       /\ (ret[t].op = "getAvailableLanguages" /\ ~m_initialized[ret[t].self])
          => ret[t].val = <<>>

\* performOCR(path, mode) has returned on a moved-from session, for a file
\* that is a valid image.
C8_Witness ==
    \E t \in Threads :
       /\ ret[t].op = "performOCR(path,mode)"
       /\ ~m_initialized[ret[t].self]
       /\ m_tesseractAPI[ret[t].self] = Null
       /\ ValidPath(ret[t].arg[1])

(***************************************************************************)
(* C9. validateImage(path) is true exactly if the path exists, is a        *)
(* regular file and has, compared case-insensitively, a supported          *)
(* extension; and it changes nothing of any session.                       *)
(***************************************************************************)
C9_ValidateImage ==
    /\ [](\A t \in Threads :
             ret[t].op = "validateImage" => (ret[t].val <=> ValidPath(ret[t].arg)))
    /\ [][\A t \in Threads :
             (InCall(t, "validateImage") \/ InCall(t, "validateImage")')
             => UNCHANGED <<sessionVars, m_mutex>>]_vars

\* validateImage has returned true for a file whose suffix is in upper case.
C9_Witness ==
    \E t \in Threads :
       /\ ret[t].op = "validateImage"
       /\ ret[t].val = TRUE
       /\ Files[ret[t].arg].suffix # ToLower(Files[ret[t].arg].suffix)

(***************************************************************************)
(* C10. The supported-format list is computed once: the population loop    *)
(* runs at most once, and every getSupportedFormats() call returns the     *)
(* duplicate-free intersection of the decoder's formats with the OCR       *)
(* formats.                                                                *)
(***************************************************************************)
C10_FormatsComputedOnce ==
    /\ populations <= 1
    /\ \A t \in Threads :
          ret[t].op = "getSupportedFormats"
          => /\ Range(ret[t].val) = ExpectedFormats
             /\ Len(ret[t].val) = Cardinality(ExpectedFormats)

\* The call that thread t has returned from is a performOCR(image) in which
\* the engine handed back a text buffer.
GotText(t) ==
    /\ ret[t].op = "performOCR(image)"
    /\ ret[t].answers # <<>>
    /\ ~ret[t].answers[1].null

(***************************************************************************)
(* C11. With confidence scoring enabled and a text buffer of mean          *)
(* confidence c from the engine, success = (c >= minimumConfidence); the   *)
(* text is in the result also when c is below the threshold.               *)
(***************************************************************************)
C11_ConfidenceThreshold ==
    \A t \in Threads :
       (GotText(t) /\ pre[t].enableConfidenceScoring)
       => /\ Len(ret[t].answers) = 2
          /\ ret[t].val.success = (ret[t].answers[2] >= pre[t].minimumConfidence)
          /\ ret[t].val.confidence = ret[t].answers[2]
          /\ ret[t].val.text = ret[t].answers[1].chars

\* A recognition whose confidence is exactly the threshold 60 has succeeded.
C11_Witness ==
    \E t \in Threads :
       /\ GotText(t)
       /\ pre[t].enableConfidenceScoring
       /\ pre[t].minimumConfidence = 60
       /\ ret[t].answers[2] = 60
       /\ ret[t].val.success
       /\ ret[t].val.text # <<>>

(***************************************************************************)
(* C12. With confidence scoring disabled and a text buffer that is not     *)
(* empty after trimming, success is true whatever minimumConfidence is,    *)
(* the engine is not asked for a confidence and the field stays 0.         *)
(***************************************************************************)
C12_ScoringDisabledSuccess ==
    \A t \in Threads :
       (/\ GotText(t)
        /\ ~pre[t].enableConfidenceScoring
        /\ \E i \in 1..Len(ret[t].answers[1].chars) : ~IsSpace(ret[t].answers[1].chars[i]))
       => /\ ret[t].val.success
          /\ ret[t].val.confidence = 0
          /\ Len(ret[t].answers) = 1

\* Text that ends in a newline was recognized under the threshold 100.
C12_Witness ==
    \E t \in Threads :
       /\ GotText(t)
       /\ ~pre[t].enableConfidenceScoring
       /\ pre[t].minimumConfidence = 100
       /\ ret[t].val.text = <<"x", "=", "1", "\n">>
       /\ ret[t].val.success

(***************************************************************************)
(* C13. With confidence scoring disabled, an image without text (the       *)
(* engine's buffer is empty after trimming) gives success = true and an    *)
(* empty errorMessage.                                                     *)
(***************************************************************************)
C13_NoTextIsSuccess ==
    \A t \in Threads :
       (/\ GotText(t)
        /\ ~pre[t].enableConfidenceScoring
        /\ \A i \in 1..Len(ret[t].answers[1].chars) : IsSpace(ret[t].answers[1].chars[i]))
       => /\ ret[t].val.success
          /\ ret[t].val.errorMessage = NoError

(***************************************************************************)
(* C14. Every result of a performOCR overload has an empty errorMessage if *)
(* success is true and a non-empty one if success is false.                *)
(***************************************************************************)
C14_SuccessXorError ==
    \A t \in Threads :
       ret[t].op \in Overloads
       => (ret[t].val.success <=> ret[t].val.errorMessage = NoError)

(***************************************************************************)
(* C15. Every failure result of performOCR(path) and performOCR(image)     *)
(* carries the elapsed time read from the call's timer.                    *)
(***************************************************************************)
C15_FailuresCarryElapsedTime ==
    \A t \in Threads :
       (ret[t].op \in {"performOCR(path)", "performOCR(image)"} /\ ~ret[t].val.success)
       => ret[t].val.processingTimeMs = TimerElapsed

\* The image a returned performOCR(path) or performOCR(image) call worked on.
ImageOf(r) == IF r.op = "performOCR(path)" THEN Files[r.arg].image ELSE r.arg

(***************************************************************************)
(* C16. When performOCR(path) or performOCR(image) has run the recognition *)
(* on a non-null image of size W x H, the result's imageSize is (W, H).    *)
(***************************************************************************)
C16_ImageSizeStamped ==
    \A t \in Threads :
       (/\ ret[t].op \in {"performOCR(path)", "performOCR(image)"}
        /\ ret[t].answers # <<>>
        /\ ~ImageOf(ret[t]).null)
       => ret[t].val.imageSize = [w |-> ImageOf(ret[t]).w, h |-> ImageOf(ret[t]).h]

(***************************************************************************)
(* C17. An exception raised inside performOCR(image) is caught in the      *)
(* call: it returns success = false with a non-empty errorMessage, and the *)
(* session is still initialized, owns its handle and has its mutex free.   *)
(***************************************************************************)
C17_ExceptionsAreCaught ==
    \A t \in Threads :
       (ret[t].op = "performOCR(image)" /\ ret[t].thrown)
       => /\ ~ret[t].val.success
          /\ ret[t].val.errorMessage # NoError
          /\ m_initialized[ret[t].self]
          /\ m_tesseractAPI[ret[t].self] # Null
          /\ m_mutex[ret[t].self] = Null

\* The marshalling threw before the engine was called, and the call is back.
C17_Witness ==
    \E t \in Threads :
       /\ ret[t].op = "performOCR(image)"
       /\ ret[t].thrown
       /\ ~ret[t].engineCalled
       /\ pc[t] = "idle"

LifecycleOps == {"construct", "move-construct", "move-assign", "destroy"}

\* Session s is Ready: isInitialized() would return true.
Ready(s) == alive[s] /\ m_initialized[s]

(***************************************************************************)
(* C18. A session is Ready only if the engine's Init and the first         *)
(* applyConfiguration succeeded in the constructor, and a constructor      *)
(* whose Init failed throws; no step of a performOCR, getConfig,           *)
(* setConfig, getAvailableLanguages, isInitialized or static call changes  *)
(* m_initialized of any session.                                           *)
(***************************************************************************)
C18_ReadyIsStable ==
    /\ [](\A s \in Sessions :
             Ready(s) => /\ m_tesseractAPI[s] # Null
                         /\ engine[m_tesseractAPI[s]].state = "live"
                         /\ engine[m_tesseractAPI[s]].oem = "1")
    /\ [](\A t \in Threads :
             ret[t].op = "construct"
             => /\ ret[t].val.ok <=> ret[t].val.status = 0
                /\ Ready(ret[t].self) <=> ret[t].val.status = 0)
    /\ [][(\A t \in Threads : ret'[t].op \notin LifecycleOps)
           => m_initialized' = m_initialized]_vars

\* After a construction that threw, a session was constructed and a
\* performOCR(path) that failed has returned on it: it is still Ready.
C18_Witness ==
    \E t \in Threads :
       /\ ret[t].op = "performOCR(path)"
       /\ ~ret[t].val.success
       /\ Ready(ret[t].self)
       /\ \E h \in Handles : engine[h].state = "freed"

(***************************************************************************)
(* C19. An engine handle is owned by at most one session, and an owned     *)
(* handle is live (never ended or freed), so no call reaches a released    *)
(* engine; after a move from src to another session dst, src owns no       *)
(* handle and is not initialized, and dst has the handle, the config and   *)
(* the initialized flag src had.                                           *)
(***************************************************************************)
C19_HandleOwnership ==
    /\ \A s1, s2 \in Sessions :
          (s1 # s2 /\ m_tesseractAPI[s1] # Null) => m_tesseractAPI[s1] # m_tesseractAPI[s2]
    /\ \A s \in Sessions :
          /\ m_tesseractAPI[s] # Null
             => (alive[s] /\ engine[m_tesseractAPI[s]].state = "live")
          /\ m_initialized[s] => m_tesseractAPI[s] # Null
    /\ \A t \in Threads :
          (ret[t].op \in {"move-construct", "move-assign"} /\ ret[t].val.src # ret[t].self)
          => /\ m_tesseractAPI[ret[t].val.src] = Null
             /\ ~m_initialized[ret[t].val.src]
             /\ m_tesseractAPI[ret[t].self] = ret[t].val.handle
             /\ m_config[ret[t].self] = ret[t].val.config
             /\ m_initialized[ret[t].self] = ret[t].val.initialized

\* A Ready session has been move-assigned to another Ready session: the
\* destination's old engine is freed and the source's handle has moved.
C19_Witness ==
    \E t \in Threads :
       /\ ret[t].op = "move-assign"
       /\ ret[t].val.src # ret[t].self
       /\ ret[t].val.initialized
       /\ Ready(ret[t].self)
       /\ \E h \in Handles : engine[h].state = "freed"

(***************************************************************************)
(* C20. The constructor's engine initialization hands the engine the first *)
(* candidate directory that holds the data of the configured language, or  *)
(* no path if there is none, and fails exactly if the engine's status is   *)
(* not zero.                                                               *)
(***************************************************************************)
C20_DataPathProbe ==
    \A t \in Threads :
       ret[t].op = "construct"
       => LET files == LanguageFiles(ret[t].val.config.language)
              Holds(i) == files \subseteq tessdata[PossiblePaths[i]]
              first == IF \E i \in 1..Len(PossiblePaths) : Holds(i)
                       THEN PossiblePaths[CHOOSE i \in 1..Len(PossiblePaths) :
                                             Holds(i) /\ \A j \in 1..(i - 1) : ~Holds(j)]
                       ELSE ""
          IN  /\ ret[t].val.dataPath = first
              /\ ret[t].val.seen = first
              /\ ret[t].val.ok <=> ret[t].val.status = 0

(***************************************************************************)
(* C24. The buffer convertImageForTesseract hands to the engine has        *)
(* exactly height * bytesPerLine bytes, with bytesPerPixel = 4 and         *)
(* bytesPerLine >= 4 * width: the 32-bit multiplication does not wrap.     *)
(***************************************************************************)
C24_BufferSizeExact ==
    \A t \in Threads :
       pc[t] \in RecognitionLabels
       => LET d == loc[t].imageData
          IN  /\ d.bytesPerPixel = 4
              /\ d.bytesPerLine >= 4 * d.width
              /\ d.height <= MaxInt32 \div d.bytesPerLine
              /\ d.dataSize = d.height * d.bytesPerLine

(***************************************************************************)
(* C25. When the threads call performOCR(path, mode) on one session, then  *)
(* once all of the calls have returned the stored mode is the one the      *)
(* session had before the first call (here the default, Auto).             *)
(***************************************************************************)
C25_ConcurrentModeRestored ==
    (/\ \A t \in Threads : pc[t] = "idle"
     /\ \E t \in Threads : ret[t].op = "performOCR(path,mode)")
    => m_config[1].mode = DefaultConfig.mode

(***************************************************************************)
(* C26. Between the calls on an initialized session the engine's character *)
(* allowlist is installed exactly if the stored mode is Equations or       *)
(* Mixed: once the mode is Text or Auto again, the allowlist is gone.      *)
(***************************************************************************)
C26_AllowlistFollowsMode ==
    \A s \in Sessions :
       (Ready(s) /\ \A t \in Threads : pc[t] = "idle")
       => (engine[m_tesseractAPI[s]].whitelist <=> m_config[s].mode \in {"Equations", "Mixed"})

(***************************************************************************)
(* C27. After setConfig(c) has returned true the engine works with c: its  *)
(* language is c.language and its DPI hint is c.dpi.                       *)
(***************************************************************************)
C27_EngineFollowsSetConfig ==
    \A t \in Threads :
       (ret[t].op = "setConfig" /\ ret[t].val = TRUE)
       => /\ engine[m_tesseractAPI[ret[t].self]].language = ret[t].arg.language
          /\ engine[m_tesseractAPI[ret[t].self]].dpi = ret[t].arg.dpi

(***************************************************************************)
(* C21. A run without --dry-run preserves the source files: every regular  *)
(* file with the extension .cpp, .h or .hpp that was anywhere under the     *)
(* root before the run is still there after it.                             *)
(***************************************************************************)
C21_SourceFilesPreserved ==
    \A i \in DOMAIN runs :
       ~runs[i].dryRun
       => \A e \in runs[i].before :
             (/\ Entries[e].kind = "file"
              /\ Extension(Entries[e].name) \in
                    {<<".", "c", "p", "p">>, <<".", "h">>, <<".", "h", "p", "p">>})
             => e \in runs[i].after

(***************************************************************************)
(* C22. A run with --dry-run deletes nothing: the tree is the same during   *)
(* and after the run as before it, while every item the walk collects is    *)
(* reported with a "Would delete" line and counted.                         *)
(***************************************************************************)
C22_DryRunDeletesNothing ==
    /\ (cleanup.phase = "cleanDirectory" /\ cleanup.dryRun) => disk = cleanup.before
    /\ \A i \in DOMAIN runs :
          runs[i].dryRun
          => /\ runs[i].after = runs[i].before
             /\ Reported(runs[i]) = WouldDelete(runs[i].before)
             /\ \A line \in runs[i].output : line.text = "Would delete"
             /\ runs[i].deletedFiles =
                   Cardinality({e \in WouldDelete(runs[i].before) : Entries[e].kind = "file"})
             /\ runs[i].deletedDirs =
                   Cardinality({e \in WouldDelete(runs[i].before) : Entries[e].kind = "dir"})

\* A dry run has finished that reported a directory and a file.
C22_Witness ==
    \E i \in DOMAIN runs :
       /\ runs[i].dryRun
       /\ runs[i].deletedDirs >= 1 /\ runs[i].deletedFiles >= 1
       /\ runs[i].after = runs[i].before

(***************************************************************************)
(* C23. After a run without --dry-run no directory named .vs, .idea or      *)
(* .vscode, in any letter case, is left anywhere under the root.            *)
(***************************************************************************)
C23_IdeDirectoriesRemoved ==
    \A i \in DOMAIN runs :
       ~runs[i].dryRun
       => \A e \in runs[i].after :
             ~(/\ Entries[e].kind = "dir"
               /\ ToLower(Entries[e].name) \in
                     {<<".", "v", "s">>, <<".", "i", "d", "e", "a">>,
                      <<".", "v", "s", "c", "o", "d", "e">>})

(***************************************************************************)
(* C29. The walk deletes a directory only if its lower-cased name is in     *)
(* unwantedDirectories: every directory a run reports as deleted, or as     *)
(* one it would delete, has such a name, and so has every directory that    *)
(* is gone after the run while the directory it was in is still there.      *)
(***************************************************************************)
C29_OnlyListedDirectoriesDeleted ==
    \A i \in DOMAIN runs :
       /\ \A line \in runs[i].output :
             line.what = "directory"
             => Contains(unwantedDirectories, ToLower(Entries[line.path].name))
       /\ \A e \in Removed(runs[i]) :
             Entries[e].kind = "dir"
             => Contains(unwantedDirectories, ToLower(Entries[e].name))

(***************************************************************************)
(* C30. A dry run and a real run that started from the same tree report     *)
(* the same deletedFiles, deletedDirs and totalSize, and the paths the dry  *)
(* run reported are the items the real run removed.                         *)
(***************************************************************************)
C30_DryRunPredictsRealRun ==
    \A i, j \in DOMAIN runs :
       (runs[i].dryRun /\ ~runs[j].dryRun /\ runs[i].before = runs[j].before)
       => /\ runs[i].deletedFiles = runs[j].deletedFiles
          /\ runs[i].deletedDirs = runs[j].deletedDirs
          /\ runs[i].totalSize = runs[j].totalSize
          /\ Reported(runs[i]) = Removed(runs[j])
          /\ Reported(runs[i]) = Reported(runs[j])

\* A dry run and then a real run of the same tree have finished, and they
\* dealt with a directory and a file.
C30_Witness ==
    \E i, j \in DOMAIN runs :
       /\ runs[i].dryRun /\ ~runs[j].dryRun
       /\ runs[i].before = runs[j].before
       /\ runs[j].deletedDirs >= 1 /\ runs[j].deletedFiles >= 1
       /\ runs[j].after # runs[j].before

(***************************************************************************)
(* C28. While an operation is in progress in the main window the start      *)
(* button is disabled, whatever the user does.                              *)
(***************************************************************************)
C28_StartDisabledWhileInProgress ==
    window.m_operationInProgress => ~window.startEnabled

=============================================================================
